---- MODULE Spec2Model ----
(***************************************************************************)
(* State-machine model of the agent execution loop (run_afm_cycle), its    *)
(* tool dispatch and the request handler that drives it                    *)
(* (process_new_message).                                                  *)
(*                                                                         *)
(* Text is modelled as a sequence of tokens: every delimiter tag, every    *)
(* tool identifier, every literal fragment of a format string and every    *)
(* whitespace run is one token.  Python's str.split, str.strip and `in`    *)
(* are computed on these sequences as the interpreter computes them on     *)
(* characters.                                                             *)
(***************************************************************************)
EXTENDS Integers, Sequences, FiniteSets, TLC

VARIABLES
    pc,               \* position of the request in process_new_message / run_afm_cycle
    turn,             \* number of loop iterations started (`turn + 1` of the code)
    messages,         \* the transcript `messages` of run_afm_cycle
    response_content, \* the primary model's output of the current iteration
    final_answer,     \* value returned by run_afm_cycle (None before it returns)
    outcome,          \* the exit path run_afm_cycle took
    llmCalls,         \* number of llm.invoke calls of this invocation
    iterExtract,      \* extractor.invoke calls since the last llm.invoke
    iterHandler,      \* handler invocations since the last llm.invoke
    iterObs,          \* observations appended since the last llm.invoke
    toolEvent,        \* what the tool stage did since the last llm.invoke
    dbMessages,       \* rows of table `messages` of the conversation
    dbUser,           \* the row of table `users` of the caller
    dbCorrections,    \* rows of table `grammar_corrections`
    storeProfile,     \* cache entry ("profile", user_id) / "latest"
    storeCorrections, \* cache entries under ("corrections", user_id, conversation_id)
    analysis,         \* the pipeline state {syntactic_analysis, semantic_analysis}
    conversation_history_list, \* history loaded by process_new_message
    user_profile_str, \* profile text loaded by process_new_message
    reply,            \* value returned by process_new_message (None before)
    faults,           \* failures of external calls injected so far
    pipeline_trace,   \* the nodes of the preprocessing graph run so far, in order
    cancelled,        \* the owning request has been cancelled
    calls,            \* log of the handler invocations made directly (handler harness)
    lang,             \* what detect(user_input) answered for this request
    dispatched,       \* the handler call of the current iteration: tool, schema, arguments
    workers,          \* requests served concurrently on the same stores, one record each
    proofread         \* one run of check_text: the text, the service's matches, the result

vars == <<pc, turn, messages, response_content, final_answer, outcome, llmCalls,
          iterExtract, iterHandler, iterObs, toolEvent, dbMessages, dbUser,
          dbCorrections, storeProfile, storeCorrections, analysis,
          conversation_history_list, user_profile_str, reply, faults,
          pipeline_trace, cancelled, calls, lang, dispatched, workers, proofread>>

(* Python's None in a string-valued field *)
None == "None"

(* a text-valued variable that is not set yet *)
NoText == <<>>

----------------------------------------------------------------------------
(* Tokens *)

FA_OPEN  == "<final_answer>"
FA_CLOSE == "</final_answer>"
TC_OPEN  == "<tool_call>"
TC_CLOSE == "</tool_call>"
PLAN     == "<plan>"
SP       == " "
NL       == "\n"

Whitespace == {SP, NL}

ToolNames == {"WebSearch", "UpdateUserProfile", "SaveGrammarCorrection"}

(* max_turns of run_afm_cycle *)
max_turns == 5

(* bound on the failures of external calls (models, database, cache, search) *)
(* injected into one request                                                *)
MaxFaults == 1

CanFail == faults < MaxFaults

----------------------------------------------------------------------------
(* Python string primitives on token sequences *)

Contains(s, tok) == \E i \in 1..Len(s) : s[i] = tok

SplitAt[s \in Seq(STRING), sep \in STRING] ==
    IF ~Contains(s, sep) THEN <<s>>
    ELSE LET i == CHOOSE k \in 1..Len(s) :
                      s[k] = sep /\ \A j \in 1..(k-1) : s[j] # sep
         IN  <<SubSeq(s, 1, i-1)>> \o SplitAt[SubSeq(s, i+1, Len(s)), sep]
Split(s, sep) == SplitAt[s, sep]

LStripOf[s \in Seq(STRING)] ==
    IF s # <<>> /\ Head(s) \in Whitespace THEN LStripOf[Tail(s)] ELSE s
LStrip(s) == LStripOf[s]

RStripOf[s \in Seq(STRING)] ==
    IF s # <<>> /\ s[Len(s)] \in Whitespace THEN RStripOf[SubSeq(s, 1, Len(s)-1)] ELSE s
RStrip(s) == RStripOf[s]

Strip(s) == RStrip(LStrip(s))

----------------------------------------------------------------------------
(* Parsing of the primary model's output, run_afm_cycle *)

(* the delimited text returned without .strip() *)
FinalAnswerOf_NoStrip(r) == Split(Split(r, FA_OPEN)[2], FA_CLOSE)[1]


(* response_content.split("<final_answer>")[1].split("</final_answer>")[0].strip() *)
FinalAnswerOf(r) == Strip(Split(Split(r, FA_OPEN)[2], FA_CLOSE)[1])

(* response_content.split("<tool_call>")[1].split("</tool_call>")[0].strip() *)
ToolCallContentOf(r) == Strip(Split(Split(r, TC_OPEN)[2], TC_CLOSE)[1])

(* the else branch returning the output untrimmed *)
RawAnswerOf_NoStrip(r) == r


(* the else branch: response_content.strip() *)
RawAnswerOf(r) == Strip(r)

(* the chain without its else branch: an unknown text falls to the first tool *)
IdentifyTool_NoElse(c) ==
    IF Contains(c, "UpdateUserProfile") THEN "UpdateUserProfile"
    ELSE IF Contains(c, "SaveGrammarCorrection") THEN "SaveGrammarCorrection"
    ELSE "WebSearch"


(* the identifier that occurs earliest in the text wins, whatever its rank *)
IdentifyTool_FirstOccurrence(c) ==
    LET At(n) == {i \in 1..Len(c) : c[i] = n}
        Found == {n \in {"WebSearch", "UpdateUserProfile", "SaveGrammarCorrection"} : At(n) # {}}
        First(n) == CHOOSE i \in At(n) : \A j \in At(n) : i <= j
    IN  IF Found = {} THEN None
        ELSE CHOOSE n \in Found : \A m \in Found : First(n) <= First(m)


(* the if / elif / elif / else chain that picks extractor and tool_name *)
IdentifyTool(c) ==
    IF Contains(c, "WebSearch") THEN "WebSearch"
    ELSE IF Contains(c, "UpdateUserProfile") THEN "UpdateUserProfile"
    ELSE IF Contains(c, "SaveGrammarCorrection") THEN "SaveGrammarCorrection"
    ELSE None

(* the for loop with an off-by-one bound *)
LoopContinues_OffByOne == turn <= max_turns

(* for turn in range(max_turns) *)
LoopContinues == turn < max_turns

APOLOGY == <<"I'm sorry, I couldn't process your request after several attempts.">>

(* f"<observation>\n{...}\n</observation>" *)
Observation(t) == <<"<observation>\n">> \o t \o <<"\n</observation>">>

(* except ValidationError as e *)
ValidationObservation(e) == Observation(<<"Pydantic validation error: ", e>>)

(* except Exception as e *)
ExceptionObservation(e) == Observation(<<"Error executing tool: ">> \o e)

(* raise ValueError(f"Tool not recognized in: {tool_call_content}") *)
NotRecognizedError(c) == <<"Tool not recognized in: ">> \o c

SystemMessage(t) == [origin |-> "system", content |-> t]
AIMessage(t)     == [origin |-> "ai", content |-> t]
HumanMessage(t)  == [origin |-> "human", content |-> t]

(* texts the primary model may answer with *)
Responses ==
    { <<PLAN, FA_OPEN, SP, "hi", SP, FA_CLOSE>>,
      <<FA_OPEN, "hi">>,
      <<FA_OPEN, "hi", FA_CLOSE, TC_OPEN, "WebSearch", "(q)", TC_CLOSE>>,
      <<SP, "hi", NL>>,
      <<TC_OPEN, "WebSearch", "(q)", TC_CLOSE>>,
      <<PLAN, TC_OPEN, SP, "UpdateUserProfile", "(p)", SP, TC_CLOSE>>,
      <<TC_OPEN, "SaveGrammarCorrection", "(c)", TC_CLOSE>>,
      <<TC_OPEN, "Foo", "(x)", TC_CLOSE>>,
      <<FA_OPEN>> \o APOLOGY \o <<FA_CLOSE>> }

----------------------------------------------------------------------------
(* Tool parameter schemas (tool_schemas.py): values the extractor can yield. *)
(* interests_to_add is a set; None and the empty list are both {}, which    *)
(* the handler's `if interests_to_add:` treats alike.                       *)

WebSearchParams == { [query |-> "q"] }

UpdateUserProfileParams ==
    { [name |-> "Ana", location |-> None, interests_to_add |-> {"chess"}] }

SaveGrammarCorrectionParams ==
    { [original_text |-> "I has went", corrected_text |-> "I went",
       explanation |-> "tense", improvement |-> "tip"] }

(* max_results of the TavilySearch instance *)
max_results == 2

(* numbers of result items the search answers with in the model *)
ResultCounts == {k \in {0, 1} : k <= max_results}

----------------------------------------------------------------------------
(* Tool handlers (tools.py).  Each operator gives the handler's result for  *)
(* one outcome `env` of its external calls: the text it returns or the      *)
(* exception that escapes it, and the rows and cache entries it leaves.     *)

(* `if name:` on an Optional[str] *)
Truthy(v) == v # None /\ v # ""

(* a supplied value that never replaces a stored one *)
Overwrite_KeepStored(stored, supplied) ==
    IF stored # None THEN stored ELSE supplied

(* if name: user_in_db.first_name = name; the same for location *)
Overwrite(stored, supplied) ==
    IF Truthy(supplied) THEN supplied ELSE stored

(* the supplied interests stored in place of the existing ones *)
MergeInterests_Replace(current_interests, interests_to_add) == interests_to_add

(* list(set(current_interests) | set(interests_to_add)) *)
MergeInterests(current_interests, interests_to_add) ==
    current_interests \cup interests_to_add

(* update_user_profile *)
update_user_profile(p, env) ==
    LET user_in_db == dbUser[1]
        merged == [first_name |-> Overwrite(user_in_db.first_name, p.name),
                   location |-> Overwrite(user_in_db.location, p.location),
                   user_interests |->
                       IF p.interests_to_add # {}
                       THEN MergeInterests(user_in_db.user_interests, p.interests_to_add)
                       ELSE user_in_db.user_interests]
        profile_to_cache == [name |-> merged.first_name, location |-> merged.location,
                             interests |-> merged.user_interests]
        same == [user |-> dbUser, profile |-> storeProfile]
    IN  IF dbUser = <<>>
        THEN same @@ [raised |-> FALSE, text |-> <<"Error: User with ID ", "user_id", " not found.">>]
        ELSE CASE env = "ok" ->
                    [user |-> <<merged>>, profile |-> <<profile_to_cache>>, raised |-> FALSE,
                     text |-> <<"User profile updated successfully.">>]
               [] env = "commit_fail" ->
                    same @@ [raised |-> FALSE, text |-> <<"Failed to update profile: ", "e">>]
               [] env = "cache_fail" ->
                    [user |-> <<merged>>, profile |-> storeProfile, raised |-> FALSE,
                     text |-> <<"Failed to update profile: ", "e">>]
               [] env = "rollback_fail" ->
                    same @@ [raised |-> TRUE, text |-> <<"e">>]

(* the lookup taking the newest row of any role *)
LastHumanMessage_AnyRole == Len(dbMessages)


(* index of the newest human row of the conversation, 0 when there is none *)
LastHumanMessage ==
    LET H == {i \in 1..Len(dbMessages) : dbMessages[i].role = "human"}
    IN  IF H = {} THEN 0 ELSE CHOOSE i \in H : \A j \in H : j <= i

(* a column without the unique constraint *)
UniqueViolation_Never(message_id) == FALSE

(* message_id = Column(..., unique=True): a second row for the message is refused *)
UniqueViolation(message_id) == \E c \in dbCorrections : c.message_id = message_id

(* save_grammar_correction *)
save_grammar_correction(p, env) ==
    LET same == [corrections |-> dbCorrections, cached |-> storeCorrections]
        row  == [id |-> Cardinality(dbCorrections) + 1, message_id |-> LastHumanMessage,
                 data |-> p]
        dup  == UniqueViolation(LastHumanMessage)
    IN  IF LastHumanMessage = 0
        THEN same @@ [raised |-> FALSE,
                      text |-> <<"Error:", " User message not found to link the correction.">>]
        ELSE CASE env = "rollback_fail" -> same @@ [raised |-> TRUE, text |-> <<"e">>]
               [] env = "commit_fail" \/ (dup /\ env # "rollback_fail") ->
                    same @@ [raised |-> FALSE, text |-> <<"Failed to save correction: ", "e">>]
               [] env = "cache_fail" /\ ~dup ->
                    [corrections |-> dbCorrections \cup {row}, cached |-> storeCorrections,
                     raised |-> FALSE, text |-> <<"Failed to save correction: ", "e">>]
               [] env = "ok" /\ ~dup ->
                    [corrections |-> dbCorrections \cup {row},
                     cached |-> Append(storeCorrections, p), raised |-> FALSE,
                     text |-> <<"Grammar correction saved successfully.">>]

(* "\n".join(formatted_results) for n result items *)
RECURSIVE FormattedResults(_)
FormattedResults(n) ==
    IF n = 0 THEN <<>>
    ELSE IF n = 1 THEN <<"[title](url)\ncontent\n">>
    ELSE FormattedResults(n - 1) \o <<NL, "[title](url)\ncontent\n">>

(* execute_web_search: env is the search's answer (n result items, a value *)
(* that is no dict with 'results') or its failure                          *)
execute_web_search(p, env) ==
    CASE env.kind = "results"     -> [raised |-> FALSE, text |-> FormattedResults(env.n)]
      [] env.kind = "not_a_dict"  -> [raised |-> FALSE, text |-> <<"str(result)">>]
      [] env.kind = "search_fail" ->
            [raised |-> FALSE, text |-> <<"Error performing search: ", "e">>]

HandlerEnvs == {"ok", "commit_fail", "cache_fail", "rollback_fail"}

(* an outcome that is a failure of an external call *)
IsFault(env) == env \in {"commit_fail", "cache_fail", "rollback_fail"}
IsSearchFault(env) == env.kind \in {"not_a_dict", "search_fail"}
WebSearchEnvs ==
    {[kind |-> "results", n |-> k] : k \in ResultCounts}
        \cup {[kind |-> "not_a_dict", n |-> 0], [kind |-> "search_fail", n |-> 0]}

TOOL_MAP == {"WebSearch", "UpdateUserProfile", "SaveGrammarCorrection"}

(* the handler TOOL_MAP registers under each name *)
TOOL_HANDLER ==
    [WebSearch |-> "execute_web_search", UpdateUserProfile |-> "update_user_profile",
     SaveGrammarCorrection |-> "save_grammar_correction"]

(* no handler call made in the current iteration *)
NoDispatch == <<>>

(* execute_tool: the handler's result for a registered tool, the error text otherwise *)
execute_tool(tool_name, handled) ==
    IF tool_name \in TOOL_MAP THEN handled
    ELSE [raised |-> FALSE, text |-> <<"Error: Tool '", tool_name, "' is not recognized.">>]

----------------------------------------------------------------------------
(* Initial state: a request enters process_new_message *)

USER_INPUT == <<"I has went">>

ENGLISH_ONLY ==
    <<"I'm sorry, I can only chat in English. Could you please rephrase your message?">>

Row(role, content) == [role |-> role, content |-> content]

(* the rows the conversation holds when the request arrives *)
PriorHistory == <<Row("human", <<"hello">>), Row("ai", <<"hi">>)>>

loopVars == <<turn, messages, response_content, final_answer, outcome, llmCalls,
              iterExtract, iterHandler, iterObs, toolEvent>>
dbVars   == <<dbMessages, dbUser, dbCorrections, storeProfile, storeCorrections>>
reqVars  == <<analysis, conversation_history_list, user_profile_str, reply>>
auxVars  == <<pipeline_trace, cancelled, calls>>
sideVars == <<workers, proofread>>
ctxVars  == <<lang, dispatched, sideVars>>

Init ==
    /\ pc = "detect"
    /\ turn = 0
    /\ messages = <<>>
    /\ response_content = NoText
    /\ final_answer = NoText
    /\ outcome = "none"
    /\ llmCalls = 0
    /\ iterExtract = 0
    /\ iterHandler = 0
    /\ iterObs = 0
    /\ toolEvent = "none"
    /\ dbMessages = PriorHistory
    /\ dbUser = << [first_name |-> "Alex", location |-> None, user_interests |-> {}] >>
    /\ dbCorrections = {}
    /\ storeProfile = <<>>
    /\ storeCorrections = <<>>
    /\ analysis = [syntactic_analysis |-> "", semantic_analysis |-> ""]
    /\ conversation_history_list = <<>>
    /\ user_profile_str = <<>>
    /\ reply = NoText
    /\ faults = 0
    /\ pipeline_trace = <<>>
    /\ cancelled = FALSE
    /\ calls = <<>>
    /\ lang = "unset"
    /\ dispatched = NoDispatch
    /\ workers = <<>>
    /\ proofread = <<>>

----------------------------------------------------------------------------
(* process_new_message, up to the call of run_afm_cycle *)

(* detect(user_input) returns a language other than 'en' *)
DetectNonEnglish ==
    /\ pc = "detect"
    /\ dbMessages' = dbMessages \o <<Row("human", USER_INPUT), Row("ai", ENGLISH_ONLY)>>
    /\ reply' = ENGLISH_ONLY
    /\ lang' = "pt"
    /\ pc' = "done"
    /\ UNCHANGED <<dispatched, sideVars, auxVars, loopVars, dbUser, dbCorrections, storeProfile, storeCorrections,
                   analysis, conversation_history_list, user_profile_str, faults>>

(* detect(user_input) returns 'en' *)
DetectEnglish ==
    /\ pc = "detect"
    /\ lang' = "en"
    /\ pc' = "persist"
    /\ UNCHANGED <<dispatched, sideVars, auxVars, loopVars, dbVars, reqVars, faults>>

(* a detection failure answered like a non-English input *)
DetectFails_Rejects ==
    /\ pc = "detect"
    /\ CanFail
    /\ faults' = faults + 1
    /\ lang' = "LangDetectException"
    /\ dbMessages' = dbMessages \o <<Row("human", USER_INPUT), Row("ai", ENGLISH_ONLY)>>
    /\ reply' = ENGLISH_ONLY
    /\ pc' = "done"
    /\ UNCHANGED <<dispatched, sideVars, auxVars, loopVars, dbUser, dbCorrections, storeProfile,
                   storeCorrections, analysis, conversation_history_list, user_profile_str>>


(* detect raises LangDetectException: processing goes on *)
DetectFails ==
    /\ pc = "detect"
    /\ CanFail
    /\ faults' = faults + 1
    /\ lang' = "LangDetectException"
    /\ pc' = "persist"
    /\ UNCHANGED <<dispatched, sideVars, auxVars, loopVars, dbVars, reqVars>>

(* the human row is committed, then history and cached profile are loaded *)
PersistHumanMessage ==
    /\ pc = "persist"
    /\ dbMessages' = Append(dbMessages, Row("human", USER_INPUT))
    /\ conversation_history_list' = dbMessages'
    /\ user_profile_str' = IF storeProfile # <<>> THEN <<storeProfile[1]>>
                           ELSE <<"Nenhum perfil salvo ainda.">>
    /\ pc' = "syntactic"
    /\ UNCHANGED <<ctxVars, auxVars, loopVars, dbUser, dbCorrections, storeProfile, storeCorrections,
                   analysis, reply, faults>>

(* LanguageToolAPI.check_text: the errors list and the explanation it returns *)
check_text(env) ==
    CASE env = "errors"      -> [errors |-> <<"e1">>, explanation |-> "Found 1 error"]
      [] env = "no_errors"   -> [errors |-> <<>>, explanation |-> "No grammar errors found."]
      [] env = "unavailable" ->
            [errors |-> <<>>, explanation |-> "Unable to check grammar at this time."]

(* syntactic_check_node *)
syntactic_check_node(env) ==
    LET correction_result == check_text(env)
    IN  IF correction_result.errors # <<>>
        THEN "Foram encontrados erros. " \o correction_result.explanation
        ELSE "Nenhum erro de sintaxe encontrado."

(* the proofreading service flags USER_INPUT, or the call to it fails *)
SyntacticCheck ==
    /\ pc = "syntactic"
    /\ \E env \in {"errors", "unavailable"} :
           /\ env = "unavailable" => CanFail
           /\ faults' = IF env = "unavailable" THEN faults + 1 ELSE faults
           /\ analysis' = [analysis EXCEPT
                              !.syntactic_analysis = syntactic_check_node(env)]
           /\ pipeline_trace' = Append(pipeline_trace,
                                       [node |-> "syntactic_check", input |-> USER_INPUT,
                                        correction_result |-> check_text(env),
                                        output |-> analysis'.syntactic_analysis])
    /\ pc' = "semantic"
    /\ UNCHANGED <<ctxVars, cancelled, calls, loopVars, dbVars, conversation_history_list,
                   user_profile_str, reply>>

(* a prompt that leaves the syntactic analysis out *)
SemanticPrompt_NoSyntactic ==
    [user_input |-> USER_INPUT, syntactic_analysis |-> ""]

(* the prompt of semantic_check_node, built from the state it is handed *)
SemanticPrompt ==
    [user_input |-> USER_INPUT, syntactic_analysis |-> analysis.syntactic_analysis]

(* semantic_check_node: semantic_llm.invoke returns *)
SemanticCheck ==
    /\ pc = "semantic"
    /\ analysis' = [analysis EXCEPT
                       !.semantic_analysis = "No additional semantic errors found."]
    /\ pipeline_trace' = Append(pipeline_trace,
                                [node |-> "semantic_check", input |-> SemanticPrompt,
                                 output |-> analysis'.semantic_analysis])
    /\ pc' = "seed"
    /\ UNCHANGED <<ctxVars, cancelled, calls, loopVars, dbVars, conversation_history_list,
                   user_profile_str, reply, faults>>

(* a usage stage that answers a failure with a substitute analysis *)
SemanticCheckRaises_Fallback ==
    /\ pc = "semantic"
    /\ CanFail
    /\ faults' = faults + 1
    /\ analysis' = [analysis EXCEPT !.semantic_analysis = "Semantic analysis unavailable."]
    /\ pipeline_trace' = Append(pipeline_trace,
                                [node |-> "semantic_check", input |-> SemanticPrompt,
                                 output |-> "raised"])
    /\ pc' = "seed"
    /\ UNCHANGED <<ctxVars, cancelled, calls, loopVars, dbVars, conversation_history_list,
                   user_profile_str, reply>>


(* semantic_llm.invoke raises: nothing catches it *)
SemanticCheckRaises ==
    /\ pc = "semantic"
    /\ CanFail
    /\ faults' = faults + 1
    /\ pipeline_trace' = Append(pipeline_trace,
                                [node |-> "semantic_check", input |-> SemanticPrompt,
                                 output |-> "raised"])
    /\ pc' = "failed"
    /\ UNCHANGED <<ctxVars, cancelled, calls, loopVars, dbVars, reqVars>>

----------------------------------------------------------------------------
(* run_afm_cycle *)

(* MASTER_PROMPT_TEMPLATE.format(...) wrapped in the SystemMessage *)
SeedTranscript ==
    /\ pc = "seed"
    /\ messages' = << SystemMessage([template |-> "MASTER_PROMPT_TEMPLATE",
                                     syntactic_analysis |-> analysis.syntactic_analysis,
                                     semantic_analysis |-> analysis.semantic_analysis,
                                     history |-> conversation_history_list,
                                     user_profile |-> user_profile_str,
                                     user_input |-> USER_INPUT]) >>
    /\ turn' = 0
    /\ pc' = "llm"
    /\ UNCHANGED <<ctxVars, auxVars, response_content, final_answer, outcome, llmCalls, iterExtract,
                   iterHandler, iterObs, toolEvent, dbVars, reqVars, faults>>

(* the final-answer branch taken only when the output holds no tool call *)
HasFinalAnswer_UnlessToolCall(r) == Contains(r, FA_OPEN) /\ ~Contains(r, TC_OPEN)


HasFinalAnswer(r) == Contains(r, FA_OPEN)
HasToolCall(r)    == Contains(r, TC_OPEN)

(* llm.invoke(messages) returns r; the output is appended and inspected *)
InvokeLLM ==
    /\ pc = "llm"
    /\ LoopContinues
    /\ \E r \in Responses :
         /\ response_content' = r
         /\ messages' = Append(messages, AIMessage(r))
         /\ IF HasFinalAnswer(r)
            THEN /\ final_answer' = FinalAnswerOf(r)
                 /\ outcome' = "final_answer"
                 /\ pc' = "afm_returned"
            ELSE IF HasToolCall(r)
            THEN /\ pc' = "tool"
                 /\ UNCHANGED <<final_answer, outcome>>
            ELSE /\ final_answer' = RawAnswerOf(r)
                 /\ outcome' = "raw"
                 /\ pc' = "afm_returned"
    /\ llmCalls' = llmCalls + 1
    /\ iterExtract' = 0
    /\ iterHandler' = 0
    /\ iterObs' = 0
    /\ toolEvent' = "none"
    /\ dispatched' = NoDispatch
    /\ UNCHANGED <<lang, sideVars, auxVars, turn, dbVars, reqVars, faults>>

(* what an exception of llm.invoke does to the invocation: it is outside any try *)
ModelErrorEscapes ==
    /\ outcome' = "model_error"
    /\ pc' = "afm_raised"
    /\ UNCHANGED <<turn, messages, final_answer>>

(* llm.invoke(messages) raises *)
InvokeLLMRaises ==
    /\ pc = "llm"
    /\ LoopContinues
    /\ CanFail
    /\ faults' = faults + 1
    /\ llmCalls' = llmCalls + 1
    /\ iterExtract' = 0
    /\ iterHandler' = 0
    /\ iterObs' = 0
    /\ toolEvent' = "none"
    /\ dispatched' = NoDispatch
    /\ ModelErrorEscapes
    /\ UNCHANGED <<lang, sideVars, auxVars, response_content, dbVars, reqVars>>

(* exhaustion signalled by an exception instead of a return value *)
LoopExhausted_Raises ==
    /\ pc = "llm"
    /\ ~LoopContinues
    /\ outcome' = "exhausted"
    /\ pc' = "afm_raised"
    /\ UNCHANGED <<ctxVars, auxVars, turn, messages, response_content, final_answer, llmCalls, iterExtract,
                   iterHandler, iterObs, toolEvent, dbVars, reqVars, faults>>


(* the for loop ran out: the statement after it returns the apology *)
LoopExhausted ==
    /\ pc = "llm"
    /\ ~LoopContinues
    /\ final_answer' = APOLOGY
    /\ outcome' = "exhausted"
    /\ pc' = "afm_returned"
    /\ UNCHANGED <<ctxVars, auxVars, turn, messages, response_content, llmCalls, iterExtract, iterHandler,
                   iterObs, toolEvent, dbVars, reqVars, faults>>

(* the observation written over the model's turn instead of appended *)
NextIteration_InPlace(obs, ev) ==
    /\ messages' = [messages EXCEPT ![Len(messages)] = HumanMessage(obs)]
    /\ iterObs' = iterObs + 1
    /\ toolEvent' = ev
    /\ turn' = turn + 1
    /\ pc' = "llm"
    /\ UNCHANGED <<final_answer, outcome>>


(* an observation is appended and the for loop goes to its next turn *)
NextIteration(obs, ev) ==
    /\ messages' = Append(messages, HumanMessage(obs))
    /\ iterObs' = iterObs + 1
    /\ toolEvent' = ev
    /\ turn' = turn + 1
    /\ pc' = "llm"
    /\ UNCHANGED <<final_answer, outcome>>

(* ValidationError left uncaught: it leaves run_afm_cycle *)
CatchValidationError_Propagates(e) ==
    /\ toolEvent' = "validation_error"
    /\ outcome' = "tool_error"
    /\ pc' = "afm_raised"
    /\ UNCHANGED <<messages, iterObs, turn, final_answer>>


(* a validation failure reported in two turns: the error, then a hint *)
CatchValidationError_TwoTurns(e) ==
    /\ messages' = messages \o <<HumanMessage(ValidationObservation(e)),
                                 HumanMessage(<<"Please correct the tool call.">>)>>
    /\ iterObs' = iterObs + 2
    /\ toolEvent' = "validation_error"
    /\ turn' = turn + 1
    /\ pc' = "llm"
    /\ UNCHANGED <<final_answer, outcome>>


(* except ValidationError as e: ... messages.append(error_message) *)
CatchValidationError(e) == NextIteration(ValidationObservation(e), "validation_error")

(* except Exception re-raising what it caught *)
CatchException_Propagates(e, ev) ==
    /\ toolEvent' = ev
    /\ outcome' = "tool_error"
    /\ pc' = "afm_raised"
    /\ UNCHANGED <<messages, iterObs, turn, final_answer>>


(* an except clause that drops the error: nothing is appended *)
CatchException_Swallow(e, ev) ==
    /\ toolEvent' = ev
    /\ turn' = turn + 1
    /\ pc' = "llm"
    /\ UNCHANGED <<messages, iterObs, final_answer, outcome>>


(* except Exception as e: ... messages.append(error_message) *)
CatchException(e, ev) == NextIteration(ExceptionObservation(e), ev)

(* no generic except clause: a handler's exception leaves run_afm_cycle *)
FoldResult_Reraise(res) ==
    IF res.raised
    THEN /\ toolEvent' = "handler_exception"
         /\ outcome' = "tool_error"
         /\ pc' = "afm_raised"
         /\ UNCHANGED <<messages, iterObs, turn, final_answer>>
    ELSE NextIteration(Observation(res.text), "handler_returned")


(* tool_result = await execute_tool(...); messages.append(observation_message) *)
FoldResult(res) ==
    IF res.raised THEN CatchException(res.text, "handler_exception")
    ELSE NextIteration(Observation(res.text), "handler_returned")

tool_call_content == ToolCallContentOf(response_content)
tool_name == IdentifyTool(tool_call_content)

(* the extractor each branch of the if / elif chain assigns with tool_name *)
BRANCH_EXTRACTOR ==
    [WebSearch |-> "websearch_extractor", UpdateUserProfile |-> "profile_extractor",
     SaveGrammarCorrection |-> "grammar_extractor"]

extractor == BRANCH_EXTRACTOR[tool_name]

(* structured_llm.with_structured_output(<schema>): the schema each extractor is bound to *)
EXTRACTOR_SCHEMA ==
    [websearch_extractor |-> "WebSearch", profile_extractor |-> "UpdateUserProfile",
     grammar_extractor |-> "SaveGrammarCorrection"]

(* an extractor that hands on a partially filled SaveGrammarCorrection *)
ExtractedBy_Partial(e) ==
    CASE EXTRACTOR_SCHEMA[e] = "WebSearch" -> WebSearchParams
      [] EXTRACTOR_SCHEMA[e] = "UpdateUserProfile" -> UpdateUserProfileParams
      [] EXTRACTOR_SCHEMA[e] = "SaveGrammarCorrection" -> { [original_text |-> "I has went"] }


(* the values extractor.invoke can return: objects of the extractor's schema *)
ExtractedBy(e) ==
    CASE EXTRACTOR_SCHEMA[e] = "WebSearch" -> WebSearchParams
      [] EXTRACTOR_SCHEMA[e] = "UpdateUserProfile" -> UpdateUserProfileParams
      [] EXTRACTOR_SCHEMA[e] = "SaveGrammarCorrection" -> SaveGrammarCorrectionParams

(* the arguments run_afm_cycle was called with *)
USER_ID == "user-1"
CONVERSATION_ID == "conversation-1"

(* the four keys run_afm_cycle assigns in tool_params *)
injected_context ==
    [user_id |-> USER_ID, store |-> "store", db_session |-> "db_session",
     conversation_id |-> CONVERSATION_ID]

(* a merge in which an extracted entry wins over the injected one *)
InjectContext_KeepExtracted(dumped) ==
    [k \in DOMAIN dumped \cup DOMAIN injected_context |->
         IF k \in DOMAIN dumped THEN dumped[k] ELSE injected_context[k]]


(* tool_params = tool_params_obj.model_dump(); tool_params[key] = value for  *)
(* each injected key: an assignment replaces an extracted entry of that key *)
InjectContext(dumped) ==
    [k \in DOMAIN dumped \cup DOMAIN injected_context |->
         IF k \in DOMAIN injected_context THEN injected_context[k] ELSE dumped[k]]

(* await execute_tool(tool_name, tool_params): the call as the handler receives it *)
HandlerCall(p) ==
    << [tool_name |-> tool_name, extractor |-> extractor,
        handler |-> TOOL_HANDLER[tool_name], tool_params |-> InjectContext(p)] >>

(* no identifier in the tool-call text: the ValueError is caught *)
ToolNotRecognized ==
    /\ pc = "tool"
    /\ tool_name = None
    /\ CatchException(NotRecognizedError(tool_call_content), "unrecognized")
    /\ UNCHANGED <<ctxVars, auxVars, response_content, llmCalls, iterExtract, iterHandler, dbVars, reqVars,
                   faults>>

(* extractor.invoke raises pydantic's ValidationError *)
ExtractionInvalid ==
    /\ pc = "tool"
    /\ tool_name # None
    /\ CanFail
    /\ faults' = faults + 1
    /\ iterExtract' = iterExtract + 1
    /\ CatchValidationError("validation error text")
    /\ UNCHANGED <<ctxVars, auxVars, response_content, llmCalls, iterHandler, dbVars, reqVars>>

(* extractor.invoke raises another exception, or returns no object *)
ExtractionRaises ==
    /\ pc = "tool"
    /\ tool_name # None
    /\ CanFail
    /\ faults' = faults + 1
    /\ iterExtract' = iterExtract + 1
    /\ CatchException(<<"e">>, "extract_exception")
    /\ UNCHANGED <<ctxVars, auxVars, response_content, llmCalls, iterHandler, dbVars, reqVars>>

DispatchWebSearch ==
    /\ pc = "tool"
    /\ tool_name = "WebSearch"
    /\ iterExtract' = iterExtract + 1
    /\ iterHandler' = iterHandler + 1
    /\ \E p \in ExtractedBy(extractor), env \in WebSearchEnvs :
           /\ IsSearchFault(env) => CanFail
           /\ dispatched' = HandlerCall(p)
           /\ faults' = IF IsSearchFault(env) THEN faults + 1 ELSE faults
           /\ FoldResult(execute_tool(tool_name, execute_web_search(p, env)))
    /\ UNCHANGED <<lang, sideVars, auxVars, response_content, llmCalls, dbVars, reqVars>>

DispatchUpdateUserProfile ==
    /\ pc = "tool"
    /\ tool_name = "UpdateUserProfile"
    /\ iterExtract' = iterExtract + 1
    /\ iterHandler' = iterHandler + 1
    /\ \E p \in ExtractedBy(extractor), env \in HandlerEnvs :
           LET res == execute_tool(tool_name, update_user_profile(p, env))
           IN  /\ IsFault(env) => CanFail
               /\ dispatched' = HandlerCall(p)
               /\ faults' = IF IsFault(env) THEN faults + 1 ELSE faults
               /\ dbUser' = res.user
               /\ storeProfile' = res.profile
               /\ FoldResult(res)
    /\ UNCHANGED <<lang, sideVars, auxVars, response_content, llmCalls, dbMessages, dbCorrections,
                   storeCorrections, reqVars>>

DispatchSaveGrammarCorrection ==
    /\ pc = "tool"
    /\ tool_name = "SaveGrammarCorrection"
    /\ iterExtract' = iterExtract + 1
    /\ iterHandler' = iterHandler + 1
    /\ \E p \in ExtractedBy(extractor), env \in HandlerEnvs :
           LET res == execute_tool(tool_name, save_grammar_correction(p, env))
           IN  /\ IsFault(env) => CanFail
               /\ dispatched' = HandlerCall(p)
               /\ faults' = IF IsFault(env) THEN faults + 1 ELSE faults
               /\ dbCorrections' = res.corrections
               /\ storeCorrections' = res.cached
               /\ FoldResult(res)
    /\ UNCHANGED <<lang, sideVars, auxVars, response_content, llmCalls, dbMessages, dbUser, storeProfile, reqVars>>

----------------------------------------------------------------------------
(* process_new_message, after run_afm_cycle *)

(* the AI row is added and committed; final_answer is returned *)
PersistAIMessage ==
    /\ pc = "afm_returned"
    /\ dbMessages' = Append(dbMessages, Row("ai", final_answer))
    /\ reply' = final_answer
    /\ pc' = "done"
    /\ UNCHANGED <<ctxVars, auxVars, loopVars, dbUser, dbCorrections, storeProfile, storeCorrections,
                   analysis, conversation_history_list, user_profile_str, faults>>

(* a try / except around run_afm_cycle that stores a fallback reply *)
AfmErrorEscapes_Fallback ==
    /\ dbMessages' = Append(dbMessages, Row("ai", APOLOGY))
    /\ reply' = APOLOGY
    /\ pc' = "done"


(* what process_new_message does with an exception of run_afm_cycle: no try *)
AfmErrorEscapes ==
    /\ pc' = "failed"
    /\ UNCHANGED <<dbMessages, reply>>

(* the owning request is cancelled while run_afm_cycle runs: the coroutine *)
(* has no point at which it yields to the event loop or tests for it       *)
CancelRequest ==
    /\ pc \in {"llm", "tool"}
    /\ ~cancelled
    /\ CanFail
    /\ faults' = faults + 1
    /\ cancelled' = TRUE
    /\ UNCHANGED <<ctxVars, pc, loopVars, dbVars, reqVars, pipeline_trace, calls>>

PropagateAfmError ==
    /\ pc = "afm_raised"
    /\ AfmErrorEscapes
    /\ UNCHANGED <<ctxVars, auxVars, loopVars, dbUser, dbCorrections, storeProfile, storeCorrections,
                   analysis, conversation_history_list, user_profile_str, faults>>

Next ==
    \/ DetectNonEnglish
    \/ DetectEnglish
    \/ DetectFails
    \/ PersistHumanMessage
    \/ SyntacticCheck
    \/ SemanticCheck
    \/ SemanticCheckRaises
    \/ SeedTranscript
    \/ InvokeLLM
    \/ InvokeLLMRaises
    \/ LoopExhausted
    \/ ToolNotRecognized
    \/ ExtractionInvalid
    \/ ExtractionRaises
    \/ DispatchWebSearch
    \/ DispatchUpdateUserProfile
    \/ DispatchSaveGrammarCorrection
    \/ PersistAIMessage
    \/ PropagateAfmError
    \/ CancelRequest

Spec == Init /\ [][Next]_vars

----------------------------------------------------------------------------
(* Properties *)

AfmTerminated == pc \in {"afm_returned", "afm_raised", "done", "failed"} /\ outcome # "none"

(* C1: in one invocation of run_afm_cycle the primary model is invoked at   *)
(* most 5 times, whatever the responses and the outcomes of extraction and  *)
(* handlers; the transcript therefore holds at most 5 model turns.          *)
C1_AtMostFiveModelCalls ==
    /\ llmCalls <= 5
    /\ Cardinality({i \in 1..Len(messages) : messages[i].origin = "ai"}) <= 5

C1_Witness == AfmTerminated /\ llmCalls = 5

(* Reference definitions the properties are stated with: the delimited      *)
(* section and the trimmed text, given by positions, not by split / strip.  *)

Min(S) == CHOOSE x \in S : \A y \in S : x <= y
Max(S) == CHOOSE x \in S : \A y \in S : y <= x

(* the text that follows the first `open` up to the next `open` or `close`, *)
(* or up to the end of s when neither follows                               *)
SectionAfter(s, open, close) ==
    LET i == Min({k \in 1..Len(s) : s[k] = open})
        E == {j \in (i+1)..Len(s) : s[j] \in {open, close}}
        e == IF E = {} THEN Len(s) + 1 ELSE Min(E)
    IN  SubSeq(s, i + 1, e - 1)

(* s without its leading and trailing whitespace *)
Trimmed(s) ==
    LET K == {k \in 1..Len(s) : s[k] \notin Whitespace}
    IN  IF K = {} THEN <<>> ELSE SubSeq(s, Min(K), Max(K))

(* the texts X that s holds as open, X, close in a row, X free of both tags *)
DelimitedSections(s, open, close) ==
    { SubSeq(s, ij[1] + 1, ij[2] - 1) :
        ij \in { p \in (1..Len(s)) \X (1..Len(s)) :
                    /\ p[1] < p[2]
                    /\ s[p[1]] = open
                    /\ s[p[2]] = close
                    /\ \A k \in (p[1]+1)..(p[2]-1) : s[k] \notin {open, close} } }

AfmReturned == pc \in {"afm_returned", "done"} /\ outcome # "none"

LastMessage == messages[Len(messages)]

(* the model turns of the transcript *)
ModelTurns == {i \in 1..Len(messages) : messages[i].origin = "ai"}

(* C2 as stated: run_afm_cycle returns X trimmed if and only if a response  *)
(* of the invocation contains <final_answer>X</final_answer>.               *)
C2_Original ==
    AfmReturned =>
        \E i \in ModelTurns :
            \E X \in DelimitedSections(messages[i].content, FA_OPEN, FA_CLOSE) :
                final_answer = Trimmed(X)

(* C2 amended: when a response contains <final_answer>, run_afm_cycle       *)
(* returns at once the text between the first <final_answer> and the next   *)
(* </final_answer> (or the next <final_answer>, or the end of the response, *)
(* whichever comes first), trimmed of surrounding whitespace, whatever      *)
(* other tags the response holds; a closing tag is not required.            *)
C2_FinalAnswerIsFirstSection ==
    (Len(messages) > 1 /\ LastMessage.origin = "ai"
        /\ Contains(LastMessage.content, FA_OPEN)) =>
            /\ AfmReturned
            /\ outcome = "final_answer"
            /\ final_answer = Trimmed(SectionAfter(LastMessage.content, FA_OPEN, FA_CLOSE))

C2_Witness ==
    /\ AfmReturned
    /\ response_content = <<PLAN, FA_OPEN, SP, "hi", SP, FA_CLOSE>>
    /\ final_answer = <<"hi">>

(* a response names a known tool inside its first <tool_call> section *)
NamesKnownTool(r) ==
    /\ Contains(r, TC_OPEN)
    /\ \E k \in 1..Len(SectionAfter(r, TC_OPEN, TC_CLOSE)) :
           SectionAfter(r, TC_OPEN, TC_CLOSE)[k] \in ToolNames

(* a tool-call iteration is over and the next model call is due *)
BeforeNextModelCall == pc = "llm" /\ turn > 0 /\ LoopContinues

(* C3 as stated: after a response with <tool_call>T(args)</tool_call> for a *)
(* known T, exactly one handler is invoked and exactly one Observation is   *)
(* appended before the next model call.                                     *)
C3_Original ==
    (BeforeNextModelCall /\ NamesKnownTool(response_content)) =>
        iterHandler = 1 /\ iterObs = 1

(* C3 amended: after such a response exactly one Observation is appended    *)
(* and at most one handler is invoked before the next model call: exactly   *)
(* one when extraction yields parameters, none when extraction fails (a     *)
(* validation error or another exception of the extractor).                 *)
C3_OneObservationAtMostOneHandler ==
    (BeforeNextModelCall /\ NamesKnownTool(response_content)) =>
        /\ iterObs = 1
        /\ iterExtract = 1
        /\ iterHandler \in {0, 1}
        /\ iterHandler = 0 <=> toolEvent \in {"validation_error", "extract_exception"}
        /\ LastMessage.origin = "human"
        /\ messages[Len(messages) - 1] = AIMessage(response_content)

C3_Witness ==
    /\ BeforeNextModelCall
    /\ NamesKnownTool(response_content)
    /\ iterHandler = 1
    /\ iterObs = 1

(* the iteration that produced toolEvent did not end the invocation: the    *)
(* loop is at its next turn, or it ran out of turns after this one          *)
LoopWentOn ==
    /\ turn >= 1
    /\ \/ pc = "llm" /\ outcome = "none" /\ final_answer = NoText
       \/ pc \in {"afm_returned", "done"} /\ outcome = "exhausted" /\ turn = max_turns

(* C4: a schema-validation failure of the extraction ends neither the       *)
(* invocation nor the loop: the entry appended right after the model's turn *)
(* is an Observation holding the validation error text, no handler runs,    *)
(* and the loop goes on to its next iteration.                              *)
C4_ValidationFailureContinues ==
    toolEvent = "validation_error" =>
        /\ LoopWentOn
        /\ LastMessage = HumanMessage(
               <<"<observation>\n", "Pydantic validation error: ",
                 "validation error text", "\n</observation>">>)
        /\ messages[Len(messages) - 1] = AIMessage(response_content)
        /\ iterHandler = 0
        /\ iterObs = 1

C4_Witness == toolEvent = "validation_error" /\ pc = "llm" /\ LoopContinues

(* the first <tool_call> section of r names no known tool *)
NamesNoTool(r) ==
    /\ Contains(r, TC_OPEN)
    /\ \A k \in 1..Len(SectionAfter(r, TC_OPEN, TC_CLOSE)) :
           SectionAfter(r, TC_OPEN, TC_CLOSE)[k] \notin ToolNames

(* a tool-call iteration on response_content is over *)
ToolIterationDone == turn >= 1 /\ pc # "tool" /\ toolEvent # "none"

(* C5 as stated: for a tool-call text that names no known tool the          *)
(* Observation has the shape "Error: Tool '<name>' is not recognized.".     *)
C5_Original ==
    (ToolIterationDone /\ NamesNoTool(response_content)) =>
        \E name \in {"Foo", "(x)", "Foo(x)", None} :
            LastMessage.content = <<"<observation>\n", "Error: Tool '", name,
                                    "' is not recognized.", "\n</observation>">>

(* C5 amended: for a tool-call text that names no known tool the            *)
(* Observation is "Error executing tool: Tool not recognized in: <text>",   *)
(* <text> being the trimmed tool-call text; no extraction and no handler    *)
(* runs, and the loop goes on to its next iteration.                        *)
C5_UnrecognizedToolObservation ==
    (ToolIterationDone /\ NamesNoTool(response_content)) =>
        /\ LastMessage = HumanMessage(
               <<"<observation>\n", "Error executing tool: ", "Tool not recognized in: ">>
                   \o Trimmed(SectionAfter(response_content, TC_OPEN, TC_CLOSE))
                   \o <<"\n</observation>">>)
        /\ iterExtract = 0
        /\ iterHandler = 0
        /\ iterObs = 1
        /\ LoopWentOn

C5_Witness ==
    /\ pc = "llm"
    /\ LoopContinues
    /\ turn >= 1
    /\ response_content = <<TC_OPEN, "Foo", "(x)", TC_CLOSE>>

(* C6: an exception raised by a tool handler, and a failure a handler       *)
(* reports, become an Observation appended to the transcript; neither       *)
(* leaves run_afm_cycle, and the loop goes on to its next iteration.        *)
C6_HandlerFailuresBecomeObservations ==
    /\ pc = "afm_raised" => outcome = "model_error" /\ iterHandler = 0
    /\ toolEvent \in {"handler_returned", "handler_exception"} =>
          /\ LoopWentOn
          /\ iterHandler = 1
          /\ iterObs = 1
          /\ LastMessage.origin = "human"
          /\ Head(LastMessage.content) = "<observation>\n"
          /\ LastMessage.content[Len(LastMessage.content)] = "\n</observation>"
          /\ messages[Len(messages) - 1] = AIMessage(response_content)
    /\ toolEvent = "handler_exception" =>
          LastMessage.content =
              <<"<observation>\n", "Error executing tool: ", "e", "\n</observation>">>

(* a handler's exception was absorbed after an earlier handler had reported *)
(* a failure of its own                                                     *)
C6_Witness ==
    /\ toolEvent = "handler_exception"
    /\ pc = "llm"
    /\ LoopContinues
    /\ \E i \in 2..Len(messages) :
           /\ messages[i].origin = "human"
           /\ messages[i].content[2] = "Failed to save correction: "

(* all 5 iterations ran without returning: 5 model responses, each with a  *)
(* tool-call delimiter and no final-answer delimiter                        *)
AllIterationsCompleted ==
    /\ llmCalls = 5
    /\ Cardinality(ModelTurns) = 5
    /\ \A i \in ModelTurns :
           /\ Contains(messages[i].content, TC_OPEN)
           /\ ~Contains(messages[i].content, FA_OPEN)

(* C7 as stated: the apology string is returned if and only if all 5        *)
(* iterations completed without returning.                                  *)
C7_Original ==
    AfmReturned => (final_answer = APOLOGY <=> AllIterationsCompleted)

(* C7 amended: run_afm_cycle ends by the return after its loop exactly when *)
(* all 5 iterations completed without returning, and it then returns the    *)
(* apology as a normal return value, which process_new_message stores and   *)
(* returns like any other answer; the same text may also be returned        *)
(* earlier as a final answer the model wrote.                               *)
C7_ApologyIffExhausted ==
    /\ outcome = "exhausted" => AfmReturned /\ final_answer = APOLOGY
    /\ AfmReturned => (outcome = "exhausted" <=> AllIterationsCompleted)
    /\ AfmReturned /\ AllIterationsCompleted => final_answer = APOLOGY
    /\ pc = "done" /\ outcome = "exhausted" =>
           /\ reply = APOLOGY
           /\ dbMessages[Len(dbMessages)] = Row("ai", APOLOGY)

C7_Witness == pc = "done" /\ outcome = "exhausted" /\ reply = APOLOGY /\ llmCalls = 5

(* run_afm_cycle has ended in one of its four outcomes *)
AfmExit ==
    /\ pc \in {"afm_returned", "afm_raised", "done", "failed"}
    /\ outcome \in {"final_answer", "raw", "exhausted", "model_error"}

(* every enabled step is eventually taken: each model, extraction and       *)
(* handler call returns or raises, and the interpreter then runs on         *)
SpecFair == Spec /\ WF_vars(Next)

(* C8: with every external call returning or raising, an invocation of      *)
(* run_afm_cycle eventually ends, with a delimited final answer, the raw    *)
(* text, the apology, or a propagated model-call error.                     *)
C8_AfmTerminates == (pc = "llm") ~> AfmExit

C8_Witness == AfmExit /\ outcome = "raw" /\ llmCalls = 3 /\ pc = "done"

(* C9 as stated: a response with neither delimiter is returned as it is.    *)
C9_Original ==
    (AfmReturned /\ outcome = "raw") => final_answer = response_content

(* C9 amended: a response with neither delimiter is returned in that same   *)
(* iteration trimmed of its surrounding whitespace, with no extraction      *)
(* call, no handler invocation and no further model call.                   *)
C9_RawFallbackReturnsTrimmed ==
    (Len(messages) > 1 /\ LastMessage.origin = "ai"
        /\ ~Contains(LastMessage.content, FA_OPEN)
        /\ ~Contains(LastMessage.content, TC_OPEN)) =>
            /\ AfmReturned
            /\ outcome = "raw"
            /\ final_answer = Trimmed(LastMessage.content)
            /\ iterExtract = 0
            /\ iterHandler = 0
            /\ iterObs = 0
            /\ llmCalls = turn + 1
            /\ Cardinality(ModelTurns) = llmCalls

C9_Witness ==
    /\ pc = "afm_returned"
    /\ outcome = "raw"
    /\ response_content = <<SP, "hi", NL>>
    /\ final_answer = <<"hi">>

(* C10: an error of a primary-model call leaves run_afm_cycle: it becomes   *)
(* no Observation, the call is not repeated, no text is returned, and       *)
(* process_new_message persists no AI reply for the turn.                   *)
C10_ModelErrorPropagates ==
    outcome = "model_error" =>
        /\ pc \in {"afm_raised", "failed"}
        /\ final_answer = NoText
        /\ reply = NoText
        /\ llmCalls = turn + 1
        /\ Cardinality(ModelTurns) = turn
        /\ Len(messages) = 1 + 2 * turn
        /\ Len(messages) > 1 => LastMessage.origin = "human"
        /\ \A i \in 2..Len(messages) :
               messages[i].origin = "human" =>
                   messages[i - 1] = AIMessage(messages[i - 1].content)
        /\ Len(dbMessages) = Len(PriorHistory) + 1
        /\ dbMessages[Len(dbMessages)] = Row("human", USER_INPUT)

C10_Witness == pc = "failed" /\ outcome = "model_error" /\ turn = 2

(* s is an initial segment of t *)
IsPrefix(s, t) == Len(s) <= Len(t) /\ \A i \in 1..Len(s) : s[i] = t[i]

(* a transcript turn that is a tool observation *)
IsObservationTurn(m) ==
    /\ m.origin = "human"
    /\ Len(m.content) >= 2
    /\ Head(m.content) = "<observation>\n"
    /\ m.content[Len(m.content)] = "\n</observation>"

(* C11: within an invocation of run_afm_cycle the transcript only grows by  *)
(* appending: it starts as the seed alone, the seed is its only system      *)
(* turn, every later turn is a model output or a tool observation, and      *)
(* every step leaves the earlier transcript as a prefix of the later one.   *)
C11_TranscriptAppendOnly ==
    [][ /\ (pc = "seed" /\ pc' # "seed") =>
              /\ messages = <<>>
              /\ Len(messages') = 1
              /\ messages'[1].origin = "system"
        /\ pc # "seed" => IsPrefix(messages, messages')
        /\ Len(messages') <= Len(messages) + 1
        /\ \A i \in 2..Len(messages') :
              \/ messages'[i].origin = "ai"
              \/ IsObservationTurn(messages'[i])
      ]_vars

(* the transcript has grown to the seed, three model outputs and three      *)
(* observations                                                             *)
C11_Witness ==
    /\ Len(messages) = 7
    /\ messages[1].origin = "system"
    /\ messages[6].origin = "ai"
    /\ IsObservationTurn(messages[7])

(* the text an observation turn carries between its two wrapper lines *)
ObservationText(m) == SubSeq(m.content, 2, Len(m.content) - 1)

(* C12: every Observation appended to the transcript, from a handler or     *)
(* from error recovery, is a non-empty text, also for a web search that     *)
(* answers with a result list of zero items.                                *)
C12_ObservationNeverEmpty ==
    \A i \in 2..Len(messages) :
        messages[i].origin = "human" =>
            /\ IsObservationTurn(messages[i])
            /\ ObservationText(messages[i]) # <<>>
            /\ \A k \in 1..Len(ObservationText(messages[i])) :
                   ObservationText(messages[i])[k] # ""

----------------------------------------------------------------------------
(* Handler harness: update_user_profile and save_grammar_correction called  *)
(* directly, as execute_tool calls them, on stores in any starting state.   *)

(* number of handler invocations of one harness run *)
MaxCalls == 2

(* parameter values of schema UpdateUserProfile: Optional[str] name and     *)
(* location, Optional[List[str]] interests_to_add                           *)
ProfileUpdates ==
    [name : {None, "", "Ana", "Bo"}, location : {None, "Rio"},
     interests_to_add : {{}, {"chess"}, {"go"}}]

(* rows of table users the harness starts from: no row, a new user, a user  *)
(* with location and interests                                              *)
HarnessUsers ==
    { <<>>,
      << [first_name |-> "Alex", location |-> None, user_interests |-> {}] >>,
      << [first_name |-> "Alex", location |-> "Lima", user_interests |-> {"chess"}] >> }

(* conversations the harness starts from: without rows, with an AI row      *)
(* only, with a human row                                                   *)
HarnessHistories == { <<>>, <<Row("ai", <<"hi">>)>>, PriorHistory }

(* parameter values of schema SaveGrammarCorrection: two corrections *)
HarnessCorrections ==
    SaveGrammarCorrectionParams \cup
        { [original_text |-> "I has went", corrected_text |-> "I have gone",
           explanation |-> "participle", improvement |-> "tip 2"] }

(* the stores as a handler finds and leaves them *)
Snapshot ==
    [user |-> dbUser, profile |-> storeProfile, corrections |-> dbCorrections,
     cached |-> storeCorrections, messages |-> dbMessages]

HarnessInit ==
    /\ pc = "harness"
    /\ turn = 0
    /\ messages = <<>>
    /\ response_content = NoText
    /\ final_answer = NoText
    /\ outcome = "none"
    /\ llmCalls = 0
    /\ iterExtract = 0
    /\ iterHandler = 0
    /\ iterObs = 0
    /\ toolEvent = "none"
    /\ dbMessages \in HarnessHistories
    /\ dbUser \in HarnessUsers
    /\ dbCorrections = {}
    /\ storeProfile \in
          {<<>>} \cup {<<[name |-> dbUser[i].first_name, location |-> dbUser[i].location,
                          interests |-> dbUser[i].user_interests]>> : i \in 1..Len(dbUser)}
    /\ storeCorrections = <<>>
    /\ analysis = [syntactic_analysis |-> "", semantic_analysis |-> ""]
    /\ conversation_history_list = <<>>
    /\ user_profile_str = <<>>
    /\ reply = NoText
    /\ faults = 0
    /\ pipeline_trace = <<>>
    /\ cancelled = FALSE
    /\ calls = <<>>
    /\ lang = "unset"
    /\ dispatched = NoDispatch
    /\ workers = <<>>
    /\ proofread = <<>>

(* execute_tool("UpdateUserProfile", tool_params) *)
CallUpdateUserProfile ==
    /\ pc = "harness"
    /\ Len(calls) < MaxCalls
    /\ \E p \in ProfileUpdates, env \in HandlerEnvs :
           LET res == execute_tool("UpdateUserProfile", update_user_profile(p, env))
           IN  /\ dbUser' = res.user
               /\ storeProfile' = res.profile
               /\ UNCHANGED <<dbMessages, dbCorrections, storeCorrections>>
               /\ calls' = Append(calls,
                                  [tool |-> "UpdateUserProfile", p |-> p, env |-> env,
                                   raised |-> res.raised, text |-> res.text,
                                   before |-> Snapshot, after |-> Snapshot'])
    /\ UNCHANGED <<ctxVars, pc, loopVars, reqVars, faults, pipeline_trace, cancelled>>

(* execute_tool("SaveGrammarCorrection", tool_params) *)
CallSaveGrammarCorrection ==
    /\ pc = "harness"
    /\ Len(calls) < MaxCalls
    /\ \E p \in HarnessCorrections, env \in HandlerEnvs :
           LET res == execute_tool("SaveGrammarCorrection", save_grammar_correction(p, env))
           IN  /\ dbCorrections' = res.corrections
               /\ storeCorrections' = res.cached
               /\ UNCHANGED <<dbMessages, dbUser, storeProfile>>
               /\ calls' = Append(calls,
                                  [tool |-> "SaveGrammarCorrection", p |-> p, env |-> env,
                                   raised |-> res.raised, text |-> res.text,
                                   before |-> Snapshot, after |-> Snapshot'])
    /\ UNCHANGED <<ctxVars, pc, loopVars, reqVars, faults, pipeline_trace, cancelled>>

HarnessNext ==
    \/ CallUpdateUserProfile
    \/ CallSaveGrammarCorrection

SpecHandlers == HarnessInit /\ [][HarnessNext]_vars

(* the invocations of one handler in the log *)
CallsOf(tool) == {i \in 1..Len(calls) : calls[i].tool = tool}

SUCCESS_PROFILE == <<"User profile updated successfully.">>
SUCCESS_CORRECTION == <<"Grammar correction saved successfully.">>

(* no row of the conversation is a human turn *)
NoHumanTurn(rows) == \A i \in 1..Len(rows) : rows[i].role # "human"

(* C13: save_grammar_correction called for a conversation without a human   *)
(* turn returns a text that begins with "Error:", raises nothing, and       *)
(* leaves table grammar_corrections and the cache as they were.             *)
C13_NoHumanTurnIsReported ==
    \A i \in CallsOf("SaveGrammarCorrection") :
        NoHumanTurn(calls[i].before.messages) =>
            /\ ~calls[i].raised
            /\ Head(calls[i].text) = "Error:"
            /\ calls[i].after.corrections = calls[i].before.corrections
            /\ calls[i].after.cached = calls[i].before.cached
            /\ calls[i].after.corrections = {}

C13_Witness ==
    /\ Len(calls) = 2
    /\ \A i \in 1..2 : calls[i].tool = "SaveGrammarCorrection"
    /\ dbMessages = <<Row("ai", <<"hi">>)>>
    /\ calls[2].env = "rollback_fail"
    /\ Head(calls[2].text) = "Error:"

(* the successful invocations of update_user_profile in the log *)
ProfileSuccesses ==
    {i \in CallsOf("UpdateUserProfile") : calls[i].text = SUCCESS_PROFILE}

(* C14: a successful update_user_profile stores the union of the existing   *)
(* interests and the supplied ones, in the users row and in the cache, and  *)
(* the same call made a second time leaves the stored interests unchanged.  *)
C14_InterestsMergeByUnion ==
    /\ \A i \in ProfileSuccesses :
           /\ calls[i].after.user[1].user_interests =
                  calls[i].before.user[1].user_interests \cup calls[i].p.interests_to_add
           /\ calls[i].after.profile[1].interests =
                  calls[i].before.user[1].user_interests \cup calls[i].p.interests_to_add
    /\ \A i \in ProfileSuccesses, j \in ProfileSuccesses :
           (j = i + 1 /\ calls[j].p.interests_to_add = calls[i].p.interests_to_add) =>
               calls[j].after.user[1].user_interests =
                   calls[i].after.user[1].user_interests

(* "chess" added twice to a user without interests *)
C14_Witness ==
    /\ ProfileSuccesses = {1, 2}
    /\ calls[1].before.user[1].user_interests = {}
    /\ calls[1].p.interests_to_add = {"chess"}
    /\ calls[2].p.interests_to_add = {"chess"}
    /\ dbUser[1].user_interests = {"chess"}
    /\ Cardinality(dbUser[1].user_interests) = 1

(* a value the call carries for a field *)
Supplied(v) == v # None

(* C15 as stated: a supplied name or location replaces the stored one, an   *)
(* absent one leaves it unchanged, and no update removes an interest.       *)
C15_Original ==
    \A i \in ProfileSuccesses :
        /\ Supplied(calls[i].p.name) =>
               calls[i].after.user[1].first_name = calls[i].p.name
        /\ ~Supplied(calls[i].p.name) =>
               calls[i].after.user[1].first_name = calls[i].before.user[1].first_name
        /\ Supplied(calls[i].p.location) =>
               calls[i].after.user[1].location = calls[i].p.location
        /\ ~Supplied(calls[i].p.location) =>
               calls[i].after.user[1].location = calls[i].before.user[1].location
        /\ calls[i].before.user[1].user_interests \subseteq
               calls[i].after.user[1].user_interests

(* a field value that is supplied and is not the empty string *)
SuppliedNonEmpty(v) == v # None /\ v # ""

(* C15 amended: a supplied non-empty name or location replaces the stored   *)
(* one, so over successive updates the last such value wins; an absent or   *)
(* empty one leaves the stored value unchanged; no invocation, whatever     *)
(* its outcome, removes an interest.                                        *)
C15_OverwriteNonEmpty ==
    /\ \A i \in ProfileSuccesses :
        /\ SuppliedNonEmpty(calls[i].p.name) =>
               calls[i].after.user[1].first_name = calls[i].p.name
        /\ ~SuppliedNonEmpty(calls[i].p.name) =>
               calls[i].after.user[1].first_name = calls[i].before.user[1].first_name
        /\ SuppliedNonEmpty(calls[i].p.location) =>
               calls[i].after.user[1].location = calls[i].p.location
        /\ ~SuppliedNonEmpty(calls[i].p.location) =>
               calls[i].after.user[1].location = calls[i].before.user[1].location
    /\ \A i \in ProfileSuccesses, j \in ProfileSuccesses :
           (i < j /\ SuppliedNonEmpty(calls[i].p.name)
                  /\ SuppliedNonEmpty(calls[j].p.name)) =>
               calls[j].after.user[1].first_name = calls[j].p.name
    /\ \A i \in CallsOf("UpdateUserProfile") :
           calls[i].before.user # <<>> =>
               /\ calls[i].after.user # <<>>
               /\ calls[i].before.user[1].user_interests \subseteq
                      calls[i].after.user[1].user_interests

(* "Ana" then "Bo" as name, the second call without a location *)
C15_Witness ==
    /\ ProfileSuccesses = {1, 2}
    /\ calls[1].p.name = "Ana"
    /\ calls[1].p.location = "Rio"
    /\ calls[2].p.name = "Bo"
    /\ calls[2].p.location = None
    /\ dbUser[1].first_name = "Bo"
    /\ dbUser[1].location = "Rio"
    /\ "chess" \in dbUser[1].user_interests

(* the preprocessing graph has run to its end or has raised *)
PipelineOver == pc \notin {"detect", "persist", "syntactic", "semantic", "harness"}

(* C16: in a run of the preprocessing pipeline the grammar stage runs once  *)
(* and first, the usage stage runs once after it and is handed the grammar   *)
(* stage's output; no stage is skipped, repeated or retried.                *)
C16_StagesRunOnceInOrder ==
    /\ Len(pipeline_trace) <= 2
    /\ pc \in {"detect", "persist", "syntactic"} => pipeline_trace = <<>>
    /\ pc = "semantic" => Len(pipeline_trace) = 1
    /\ (PipelineOver /\ pc # "done") => Len(pipeline_trace) = 2
    /\ Len(pipeline_trace) >= 1 =>
          /\ pipeline_trace[1].node = "syntactic_check"
          /\ pipeline_trace[1].input = USER_INPUT
          /\ pipeline_trace[1].output # ""
    /\ Len(pipeline_trace) = 2 =>
          /\ pipeline_trace[2].node = "semantic_check"
          /\ pipeline_trace[2].input.user_input = USER_INPUT
          /\ pipeline_trace[2].input.syntactic_analysis = pipeline_trace[1].output
    /\ (pc = "done" /\ reply # ENGLISH_ONLY) => Len(pipeline_trace) = 2

(* the usage stage has run on the grammar stage's report of an error *)
C16_Witness ==
    /\ pc = "seed"
    /\ Len(pipeline_trace) = 2
    /\ pipeline_trace[2].input.syntactic_analysis =
           "Foram encontrados erros. Found 1 error"
    /\ pipeline_trace[2].output = "No additional semantic errors found."

NEUTRAL_EXPLANATION == "Unable to check grammar at this time."
ZERO_ERRORS_ANALYSIS == "Nenhum erro de sintaxe encontrado."

(* the call to the proofreading service failed in this run *)
ProofreadingFailed ==
    /\ Len(pipeline_trace) >= 1
    /\ pipeline_trace[1].correction_result.explanation = NEUTRAL_EXPLANATION

(* C17: when the proofreading-service call fails the grammar stage raises   *)
(* nothing, the usage stage runs, and the syntactic field of the analysis   *)
(* is the neutral explanation and not the zero-errors text.                 *)
C17_NeutralExplanationOnFailure ==
    ProofreadingFailed =>
        /\ pc # "syntactic"
        /\ pc # "semantic" => Len(pipeline_trace) = 2
        /\ analysis.syntactic_analysis # ZERO_ERRORS_ANALYSIS
        /\ pipeline_trace[1].output # ZERO_ERRORS_ANALYSIS

(* the secondary model's call in the usage stage raised *)
SemanticCallFailed ==
    /\ Len(pipeline_trace) = 2
    /\ pipeline_trace[2].output = "raised"

(* C18: a failure of the secondary-model call in the usage stage leaves     *)
(* process_new_message as an exception: no semantic analysis is             *)
(* substituted, run_afm_cycle is not started, no AI reply is persisted.     *)
C18_SemanticFailureIsHardError ==
    SemanticCallFailed =>
        /\ pc = "failed"
        /\ analysis.semantic_analysis = ""
        /\ messages = <<>>
        /\ llmCalls = 0
        /\ outcome = "none"
        /\ final_answer = NoText
        /\ reply = NoText
        /\ dbMessages = Append(PriorHistory, Row("human", USER_INPUT))

C18_Witness ==
    /\ SemanticCallFailed
    /\ pc = "failed"
    /\ pipeline_trace[1].output = "Foram encontrados erros. Found 1 error"
    /\ dbMessages[Len(dbMessages)].role = "human"

(* the cache entry that mirrors a users row *)
ProfileOf(u) ==
    [name |-> u.first_name, location |-> u.location, interests |-> u.user_interests]

(* C19: after an invocation of update_user_profile or                       *)
(* save_grammar_correction has ended, with success or with any failure,     *)
(* the durable store and the cache either both hold its change or both are  *)
(* as they were before it.                                                  *)
C19_StoreAndCacheAtomic ==
    /\ \A i \in CallsOf("UpdateUserProfile") :
           \/ /\ calls[i].after.user = calls[i].before.user
              /\ calls[i].after.profile = calls[i].before.profile
           \/ /\ calls[i].after.user # <<>>
              /\ calls[i].after.profile = <<ProfileOf(calls[i].after.user[1])>>
    /\ \A i \in CallsOf("SaveGrammarCorrection") :
           \/ /\ calls[i].after.corrections = calls[i].before.corrections
              /\ calls[i].after.cached = calls[i].before.cached
           \/ /\ Cardinality(calls[i].after.corrections) =
                     Cardinality(calls[i].before.corrections) + 1
              /\ calls[i].after.cached = Append(calls[i].before.cached, calls[i].p)

(* C20: once the owning request is cancelled while run_afm_cycle runs, no   *)
(* further primary-model call, extraction call or handler invocation is     *)
(* started.                                                                 *)
C20_CancellationAbortsLoop ==
    [][ cancelled =>
            /\ llmCalls' = llmCalls
            /\ iterExtract' <= iterExtract
            /\ iterHandler' <= iterHandler
      ]_vars

----------------------------------------------------------------------------
(* Tool stage on its own: one iteration of run_afm_cycle from the point     *)
(* where the model's output holds a tool call, for tool-call texts of every *)
(* shape.                                                                   *)

(* longest tool-call text, in tokens *)
MaxTextLen == 3

(* tokens of a tool-call text: the identifiers and pieces of argument text *)
TextTokens == ToolNames \cup {"(x=", ")"}

RECURSIVE TextsUpTo(_)
TextsUpTo(n) ==
    IF n = 0 THEN {<<>>}
    ELSE LET S == TextsUpTo(n - 1)
         IN  S \cup {Append(t, k) : t \in {u \in S : Len(u) = n - 1}, k \in TextTokens}

(* model outputs that hold a tool call and no final answer *)
ToolCallResponses == {<<TC_OPEN>> \o t \o <<TC_CLOSE>> : t \in TextsUpTo(MaxTextLen) \ {<<>>}}

(* the state run_afm_cycle is in after its first llm.invoke returned a tool call *)
DispatchInit ==
    /\ pc = "tool"
    /\ turn = 0
    /\ response_content \in ToolCallResponses
    /\ final_answer = NoText
    /\ outcome = "none"
    /\ llmCalls = 1
    /\ iterExtract = 0
    /\ iterHandler = 0
    /\ iterObs = 0
    /\ toolEvent = "none"
    /\ dbMessages = Append(PriorHistory, Row("human", USER_INPUT))
    /\ dbUser = << [first_name |-> "Alex", location |-> None, user_interests |-> {}] >>
    /\ dbCorrections = {}
    /\ storeProfile = <<>>
    /\ storeCorrections = <<>>
    /\ analysis = [syntactic_analysis |-> syntactic_check_node("errors"),
                   semantic_analysis |-> "No additional semantic errors found."]
    /\ conversation_history_list = dbMessages
    /\ user_profile_str = <<"Nenhum perfil salvo ainda.">>
    /\ reply = NoText
    /\ messages = << SystemMessage([template |-> "MASTER_PROMPT_TEMPLATE",
                                    syntactic_analysis |-> analysis.syntactic_analysis,
                                    semantic_analysis |-> analysis.semantic_analysis,
                                    history |-> conversation_history_list,
                                    user_profile |-> user_profile_str,
                                    user_input |-> USER_INPUT]),
                     AIMessage(response_content) >>
    /\ faults = 0
    /\ pipeline_trace = <<>>
    /\ cancelled = FALSE
    /\ calls = <<>>
    /\ lang = "en"
    /\ dispatched = NoDispatch
    /\ workers = <<>>
    /\ proofread = <<>>

DispatchNext ==
    \/ ToolNotRecognized
    \/ ExtractionInvalid
    \/ ExtractionRaises
    \/ DispatchWebSearch
    \/ DispatchUpdateUserProfile
    \/ DispatchSaveGrammarCorrection

SpecDispatch == DispatchInit /\ [][DispatchNext]_vars

(* the identifiers in their order of precedence *)
PRIORITY == <<"WebSearch", "UpdateUserProfile", "SaveGrammarCorrection">>

(* the first identifier of PRIORITY that occurs in c, None when none does *)
FirstByPriority(c) ==
    LET Occurring == {i \in 1..Len(PRIORITY) : \E j \in 1..Len(c) : c[j] = PRIORITY[i]}
    IN  IF Occurring = {} THEN None ELSE PRIORITY[Min(Occurring)]

(* the schema and the handler that go with an identifier *)
SchemaOf(name) == name
HandlerOf(name) ==
    CASE name = "WebSearch" -> "execute_web_search"
      [] name = "UpdateUserProfile" -> "update_user_profile"
      [] name = "SaveGrammarCorrection" -> "save_grammar_correction"

(* the tool stage has finished the iteration *)
ToolStageOver == pc = "llm" /\ turn = 1

(* C21: the tool of an iteration is the first of WebSearch,                 *)
(* UpdateUserProfile, SaveGrammarCorrection that occurs anywhere in the     *)
(* tool-call text, also when several occur or one occurs only inside the    *)
(* argument text; the extractor's schema and the handler called are those   *)
(* of that identifier, and no handler is called when none occurs.           *)
C21_FirstIdentifierByPriority ==
    ToolStageOver =>
        /\ toolEvent = "unrecognized" <=> FirstByPriority(tool_call_content) = None
        /\ FirstByPriority(tool_call_content) = None => dispatched = NoDispatch
        /\ toolEvent \in {"handler_returned", "handler_exception"} => dispatched # NoDispatch
        /\ \A i \in 1..Len(dispatched) :
               /\ dispatched[i].tool_name = FirstByPriority(tool_call_content)
               /\ EXTRACTOR_SCHEMA[dispatched[i].extractor] = SchemaOf(dispatched[i].tool_name)
               /\ dispatched[i].handler = HandlerOf(dispatched[i].tool_name)

C21_Witness ==
    /\ ToolStageOver
    /\ tool_call_content = <<"SaveGrammarCorrection", "(x=", "WebSearch">>
    /\ toolEvent = "handler_returned"
    /\ dispatched # NoDispatch
    /\ dispatched[1].tool_name = "WebSearch"
    /\ dispatched[1].handler = "execute_web_search"

----------------------------------------------------------------------------
(* the fields each schema of tool_schemas.py declares without a default *)
RequiredFields(schema) ==
    CASE schema = "WebSearch" -> {"query"}
      [] schema = "UpdateUserProfile" -> {}
      [] schema = "SaveGrammarCorrection" ->
            {"original_text", "corrected_text", "explanation", "improvement"}

(* params holds every required field of the schema, none of them None *)
SatisfiesSchema(schema, params) ==
    \A f \in RequiredFields(schema) : f \in DOMAIN params /\ params[f] # None

(* the extraction of the current iteration failed *)
ExtractionFailed == toolEvent \in {"validation_error", "extract_exception"}

(* C22: every handler call carries arguments that satisfy the schema of its *)
(* tool; in an iteration whose extraction fails no handler is called and    *)
(* the step leaves tables and cache as they were.                           *)
C22_HandlerGetsSchemaValidParams ==
    /\ [](/\ \A i \in 1..Len(dispatched) :
                 SatisfiesSchema(dispatched[i].tool_name, dispatched[i].tool_params)
          /\ iterHandler > 0 => dispatched # NoDispatch
          /\ ExtractionFailed => iterHandler = 0 /\ dispatched = NoDispatch)
    /\ [][(pc = "tool" /\ ExtractionFailed') => dbVars' = dbVars]_vars

C22_Witness ==
    /\ pc = "llm"
    /\ toolEvent = "validation_error"
    /\ iterExtract = 1
    /\ iterHandler = 0
    /\ turn = 2
    /\ dbCorrections # {}
    /\ storeCorrections # <<>>

----------------------------------------------------------------------------
(* the output holds a final-answer delimiter and a tool-call delimiter *)
BothDelimiters(r) == Contains(r, FA_OPEN) /\ Contains(r, TC_OPEN)

(* the step in which llm.invoke returned an output *)
ModelAnswered == pc = "llm" /\ messages' = Append(messages, AIMessage(response_content'))

(* C23: a model output holding both a final-answer and a tool-call          *)
(* delimiter makes run_afm_cycle return the final answer at once: no        *)
(* extraction call, no handler call, no observation, and tables and cache   *)
(* as they were before the model call.                                      *)
C23_FinalAnswerBeforeToolCall ==
    /\ [][(ModelAnswered /\ BothDelimiters(response_content')) =>
              /\ pc' = "afm_returned"
              /\ outcome' = "final_answer"
              /\ final_answer' = FinalAnswerOf(response_content')
              /\ iterExtract' = 0 /\ iterHandler' = 0 /\ iterObs' = 0
              /\ dispatched' = NoDispatch
              /\ dbVars' = dbVars]_vars
    /\ []((pc \in {"afm_returned", "done"} /\ BothDelimiters(response_content)) =>
              /\ outcome = "final_answer"
              /\ LastMessage = AIMessage(response_content)
              /\ iterExtract = 0 /\ iterHandler = 0 /\ iterObs = 0
              /\ dispatched = NoDispatch)

C23_Witness ==
    /\ pc = "done"
    /\ BothDelimiters(response_content)
    /\ reply = <<"hi">>
    /\ llmCalls = 2
    /\ dbCorrections = {}

----------------------------------------------------------------------------
(* extracted dictionaries that carry entries named like the injected ones *)
ClashingExtractions ==
    { [query |-> "q", user_id |-> "user-2"],
      [name |-> "Ana", location |-> None, interests_to_add |-> {},
       user_id |-> "user-2", conversation_id |-> "conversation-2"],
      [original_text |-> "a", corrected_text |-> "b", explanation |-> "c",
       improvement |-> "d", conversation_id |-> "conversation-2", store |-> None] }

(* C24: every handler call made by run_afm_cycle receives as user_id and    *)
(* conversation_id the arguments run_afm_cycle was called with, whatever    *)
(* the tool-call text and the extracted values are; an extracted entry      *)
(* named like an injected one is replaced by the injected value.            *)
C24_InjectedContextWins ==
    /\ iterHandler > 0 => dispatched # NoDispatch
    /\ \A i \in 1..Len(dispatched) :
           LET tp == dispatched[i].tool_params
           IN  /\ {"user_id", "conversation_id", "store", "db_session"} \subseteq DOMAIN tp
               /\ tp.user_id = USER_ID
               /\ tp.conversation_id = CONVERSATION_ID
               /\ \A p \in ExtractedBy(dispatched[i].extractor) :
                      \A k \in DOMAIN p : tp[k] = p[k] \/ k \in DOMAIN injected_context
    /\ \A d \in ClashingExtractions :
           /\ InjectContext(d).user_id = USER_ID
           /\ InjectContext(d).conversation_id = CONVERSATION_ID
           /\ InjectContext(d).store = "store"
           /\ \A k \in DOMAIN d \ DOMAIN injected_context : InjectContext(d)[k] = d[k]

C24_Witness ==
    /\ pc = "llm"
    /\ toolEvent = "handler_returned"
    /\ dispatched # NoDispatch
    /\ dispatched[1].tool_name = "SaveGrammarCorrection"
    /\ dispatched[1].tool_params.conversation_id = CONVERSATION_ID
    /\ dispatched[1].tool_params.user_id = USER_ID
    /\ dispatched[1].tool_params.original_text = "I has went"
    /\ turn = 3

----------------------------------------------------------------------------
(* the transcript is the seed followed by n pairs of model output and observation *)
SeedAndPairs(n) ==
    /\ Len(messages) = 2 * n + 1
    /\ messages[1].origin = "system"
    /\ \A j \in 1..n : /\ messages[2 * j].origin = "ai"
                       /\ IsObservationTurn(messages[2 * j + 1])

(* the largest number of turns a transcript reaches *)
MaxTranscript == 2 * max_turns + 1

(* C26: when the k-th model call of an invocation is made the transcript    *)
(* holds 2k-1 turns, the seed and k-1 pairs of model output and             *)
(* observation; an iteration that takes the tool-call branch appends        *)
(* exactly one observation whatever the tool stage's outcome, and the       *)
(* transcript never holds more than 11 turns.                               *)
C26_TranscriptLength ==
    /\ [][(pc = "llm" /\ llmCalls' = llmCalls + 1) =>
              /\ llmCalls + 1 \in 1..max_turns
              /\ SeedAndPairs(llmCalls)]_vars
    /\ [][(pc = "tool" /\ pc' # "tool") =>
              /\ Len(messages') = Len(messages) + 1
              /\ IsObservationTurn(messages'[Len(messages')])
              /\ iterObs' = 1
              /\ toolEvent' \in {"handler_returned", "handler_exception", "validation_error",
                                 "extract_exception", "unrecognized"}]_vars
    /\ [](Len(messages) <= MaxTranscript /\ MaxTranscript = 11)

C26_Witness ==
    /\ Len(messages) = 11
    /\ llmCalls = 5
    /\ SeedAndPairs(5)
    /\ toolEvent = "validation_error"
    /\ \E j \in 1..4 : messages[2 * j + 1] # messages[11]

----------------------------------------------------------------------------
(* the rows a request adds to the conversation *)
AddedRows == SubSeq(dbMessages, Len(PriorHistory) + 1, Len(dbMessages))

(* nothing of pipeline, loop or handlers has run *)
NothingRan ==
    /\ pipeline_trace = <<>>
    /\ analysis = [syntactic_analysis |-> "", semantic_analysis |-> ""]
    /\ messages = <<>>
    /\ llmCalls = 0 /\ turn = 0
    /\ iterExtract = 0 /\ iterHandler = 0
    /\ dispatched = NoDispatch
    /\ dbCorrections = {} /\ storeCorrections = <<>> /\ storeProfile = <<>>
    /\ dbUser = << [first_name |-> "Alex", location |-> None, user_interests |-> {}] >>

(* the request is processed as an English one *)
ProcessedAsEnglish ==
    /\ pc \notin {"detect"}
    /\ pc = "persist" => AddedRows = <<>> /\ NothingRan
    /\ pc # "persist" => AddedRows # <<>> /\ Head(AddedRows) = Row("human", USER_INPUT)
    /\ PipelineOver /\ pc # "failed" => Len(pipeline_trace) = 2
    /\ pc \in {"llm", "tool", "afm_returned", "afm_raised", "done"} => Len(messages) >= 1
    /\ pc = "done" =>
           /\ llmCalls >= 1
           /\ reply = final_answer
           /\ AddedRows = <<Row("human", USER_INPUT), Row("ai", final_answer)>>

(* C30: when detect classifies the input as not English the request returns *)
(* the fixed English-only reply, stores exactly one human and one AI row,   *)
(* and runs no pipeline, no agent loop and no handler; when detect raises   *)
(* LangDetectException the request goes on exactly as for English input.    *)
C30_NonEnglishShortCircuit ==
    /\ []((lang \notin {"unset", "en", "LangDetectException"}) =>
              /\ pc = "done"
              /\ reply = ENGLISH_ONLY
              /\ AddedRows = <<Row("human", USER_INPUT), Row("ai", ENGLISH_ONLY)>>
              /\ NothingRan)
    /\ [](lang \in {"en", "LangDetectException"} => ProcessedAsEnglish)
    /\ [][(pc = "detect" /\ lang' \in {"en", "LangDetectException"}) =>
              /\ pc' = "persist"
              /\ UNCHANGED <<loopVars, dbVars, reqVars, auxVars, dispatched>>]_vars

C30_Witness ==
    /\ lang = "pt"
    /\ pc = "done"
    /\ reply = ENGLISH_ONLY
    /\ Len(dbMessages) = 4
    /\ dbMessages[4] = Row("ai", ENGLISH_ONLY)

----------------------------------------------------------------------------
(* LanguageToolAPI.check_text on its own: the text is a sequence of          *)
(* characters, a match is the offset (counted from 0) and length of the     *)
(* flagged span and the list of replacement candidates, each a sequence of  *)
(* characters.                                                              *)

(* the text handed to check_text *)
PROOF_TEXT == <<"a", "b", "c", "d">>

(* number of matches the service answers with, at most *)
MaxMatches == 3

(* replacement lists of a match: none, two candidates of which the first is *)
(* longer than a one-character span, the empty string as only candidate     *)
ReplacementLists == { <<>>, << <<"X", "Y">>, <<"Z">> >>, << <<>> >> }

(* the matches the service can flag in t: non-empty spans inside the text *)
MatchesIn(t) ==
    { m \in [offset : 0..(Len(t) - 1), length : 1..Len(t), replacements : ReplacementLists] :
          m.offset + m.length <= Len(t) }

(* the characters a match flags *)
Span(m) == (m.offset + 1)..(m.offset + m.length)

(* lists of up to n matches of t, in any order, whose spans lie inside t    *)
(* and do not overlap each other                                            *)
RECURSIVE MatchLists(_, _)
MatchLists(t, n) ==
    IF n = 0 THEN {<<>>}
    ELSE LET S == MatchLists(t, n - 1)
         IN  S \cup UNION { { Append(ms, m) :
                                 m \in {x \in MatchesIn(t) :
                                            \A i \in 1..Len(ms) :
                                                Span(x) \cap Span(ms[i]) = {}} } :
                             ms \in {u \in S : Len(u) = n - 1} }

NonOverlapping(ms) ==
    \A i, j \in 1..Len(ms) : i # j => Span(ms[i]) \cap Span(ms[j]) = {}

(* a list in the order of its input, smallest offset first *)
RECURSIVE SortedByOffset_Ascending(_)
SortedByOffset_Ascending(ms) ==
    IF ms = <<>> THEN <<>>
    ELSE LET k == CHOOSE i \in 1..Len(ms) :
                      \A j \in 1..Len(ms) :
                          ms[i].offset < ms[j].offset \/ (ms[i].offset = ms[j].offset /\ i <= j)
         IN  <<ms[k]>> \o SortedByOffset_Ascending(
                              SubSeq(ms, 1, k - 1) \o SubSeq(ms, k + 1, Len(ms)))

(* sorted(matches, key=lambda x: x['offset'], reverse=True): largest offset *)
(* first, matches of equal offset in the order of the input                 *)
RECURSIVE SortedByOffsetReverse(_)
SortedByOffsetReverse(ms) ==
    IF ms = <<>> THEN <<>>
    ELSE LET k == CHOOSE i \in 1..Len(ms) :
                      \A j \in 1..Len(ms) :
                          ms[i].offset > ms[j].offset \/ (ms[i].offset = ms[j].offset /\ i <= j)
         IN  <<ms[k]>> \o SortedByOffsetReverse(
                              SubSeq(ms, 1, k - 1) \o SubSeq(ms, k + 1, Len(ms)))

(* corrected_text[:start] + error.replacements[0] + corrected_text[end:] *)
ApplyReplacement(corrected_text, error) ==
    IF error.replacements # <<>>
    THEN LET start == error.offset
             end == error.offset + error.length
         IN  SubSeq(corrected_text, 1, start) \o Head(error.replacements)
                 \o SubSeq(corrected_text, end + 1, Len(corrected_text))
    ELSE corrected_text

(* the for loop over the sorted matches *)
RECURSIVE ApplyAll(_, _)
ApplyAll(corrected_text, matches) ==
    IF matches = <<>> THEN corrected_text
    ELSE ApplyAll(ApplyReplacement(corrected_text, Head(matches)), Tail(matches))

(* what check_text returns when the service answered with `matches` *)
check_text_result(text, matches) ==
    [original_text |-> text,
     corrected_text |-> ApplyAll(text, SortedByOffsetReverse(matches)),
     errors |-> SortedByOffsetReverse(matches)]

ProofreadInit ==
    /\ pc = "check_text"
    /\ proofread \in { <<[text |-> PROOF_TEXT, matches |-> ms, result |-> <<>>]>> :
                          ms \in {u \in MatchLists(PROOF_TEXT, MaxMatches) : NonOverlapping(u)} }
    /\ turn = 0
    /\ messages = <<>>
    /\ response_content = NoText
    /\ final_answer = NoText
    /\ outcome = "none"
    /\ llmCalls = 0
    /\ iterExtract = 0
    /\ iterHandler = 0
    /\ iterObs = 0
    /\ toolEvent = "none"
    /\ dbMessages = PriorHistory
    /\ dbUser = << [first_name |-> "Alex", location |-> None, user_interests |-> {}] >>
    /\ dbCorrections = {}
    /\ storeProfile = <<>>
    /\ storeCorrections = <<>>
    /\ analysis = [syntactic_analysis |-> "", semantic_analysis |-> ""]
    /\ conversation_history_list = <<>>
    /\ user_profile_str = <<>>
    /\ reply = NoText
    /\ faults = 0
    /\ pipeline_trace = <<>>
    /\ cancelled = FALSE
    /\ calls = <<>>
    /\ lang = "en"
    /\ dispatched = NoDispatch
    /\ workers = <<>>

(* requests.post answers and the matches are applied *)
CheckText ==
    /\ pc = "check_text"
    /\ proofread' = << [proofread[1] EXCEPT
                           !.result = <<check_text_result(proofread[1].text,
                                                          proofread[1].matches)>>] >>
    /\ pc' = "checked"
    /\ UNCHANGED <<loopVars, dbVars, reqVars, auxVars, faults, lang, dispatched, workers>>

(* requests.post raises: the text comes back as it was, without errors *)
CheckTextFails ==
    /\ pc = "check_text"
    /\ proofread' = << [proofread[1] EXCEPT
                           !.result = << [original_text |-> proofread[1].text,
                                          corrected_text |-> proofread[1].text,
                                          errors |-> <<>>] >>] >>
    /\ faults' = faults + 1
    /\ pc' = "checked"
    /\ UNCHANGED <<loopVars, dbVars, reqVars, auxVars, lang, dispatched, workers>>

ProofreadNext ==
    \/ CheckText
    \/ CheckTextFails

SpecProofread == ProofreadInit /\ [][ProofreadNext]_vars

(* the match of ms that flags a span starting at character offset o and     *)
(* has a replacement candidate                                              *)
ReplacedAt(ms, o) ==
    {i \in 1..Len(ms) : ms[i].offset = o /\ ms[i].replacements # <<>>}

(* text t from offset o on, with every span of ms that has a candidate      *)
(* replaced by its first candidate and every other character kept           *)
RECURSIVE Rewritten(_, _, _)
Rewritten(t, ms, o) ==
    IF o >= Len(t) THEN <<>>
    ELSE IF ReplacedAt(ms, o) # {}
    THEN LET m == ms[CHOOSE i \in ReplacedAt(ms, o) : TRUE]
         IN  Head(m.replacements) \o Rewritten(t, ms, o + m.length)
    ELSE <<t[o + 1]>> \o Rewritten(t, ms, o + 1)

(* the service answered and check_text applied the matches *)
Checked == pc = "checked" /\ faults = 0 /\ proofread[1].result # <<>>

(* C25: for every list of pairwise non-overlapping flagged spans, in any    *)
(* order, the corrected text of check_text is the original text with each   *)
(* span that has a replacement candidate replaced by its first candidate,   *)
(* each span without candidates left as it is, and every character outside  *)
(* the spans unchanged.                                                     *)
C25_CorrectedTextAppliesFirstCandidates ==
    Checked =>
        /\ proofread[1].result[1].corrected_text =
               Rewritten(proofread[1].text, proofread[1].matches, 0)
        /\ proofread[1].result[1].original_text = proofread[1].text
        /\ Len(proofread[1].result[1].errors) = Len(proofread[1].matches)

C25_Witness ==
    /\ Checked
    /\ proofread[1].matches =
           << [offset |-> 0, length |-> 1, replacements |-> << <<"X", "Y">>, <<"Z">> >>],
              [offset |-> 3, length |-> 1, replacements |-> << <<>> >>],
              [offset |-> 1, length |-> 2, replacements |-> <<>>] >>
    /\ proofread[1].result[1].corrected_text = <<"X", "Y", "b", "c">>

----------------------------------------------------------------------------
(* the correction rows stored for the human message a save targets *)
CorrectionsOfTarget(rows) == {c \in rows : c.message_id = LastHumanMessage}

(* C27: after any sequence of SaveGrammarCorrection calls a human message   *)
(* has at most one correction row; a save that targets a message which      *)
(* already has one answers "Failed to save correction", leaves the stored   *)
(* row as it is and puts nothing into the cache.                            *)
C27_OneCorrectionPerMessage ==
    /\ \A c1, c2 \in dbCorrections : c1.message_id = c2.message_id => c1 = c2
    /\ \A c \in dbCorrections :
           c.message_id \in 1..Len(dbMessages) /\ dbMessages[c.message_id].role = "human"
    /\ \A i \in CallsOf("SaveGrammarCorrection") :
           CorrectionsOfTarget(calls[i].before.corrections) # {} =>
               /\ calls[i].after.corrections = calls[i].before.corrections
               /\ calls[i].after.cached = calls[i].before.cached
               /\ ~calls[i].raised => Head(calls[i].text) = "Failed to save correction: "
               /\ calls[i].raised => calls[i].env = "rollback_fail"

C27_Witness ==
    /\ Len(calls) = 2
    /\ \A i \in 1..2 : calls[i].tool = "SaveGrammarCorrection" /\ calls[i].env = "ok"
    /\ calls[1].text = SUCCESS_CORRECTION
    /\ calls[2].p # calls[1].p
    /\ Head(calls[2].text) = "Failed to save correction: "
    /\ Cardinality(dbCorrections) = 1
    /\ \E c \in dbCorrections : c.data = calls[1].p
    /\ Len(storeCorrections) = 1

----------------------------------------------------------------------------
(* Concurrent requests.  Two calls of process_new_message for the same user *)
(* and conversation are served at the same time by different workers of the *)
(* application, each with its own database session; the tables and the      *)
(* cache are shared.  Inside a request the statements keep the order of the *)
(* code; between the requests every interleaving of their reads and writes  *)
(* of tables and cache can occur, since no statement takes a lock and no    *)
(* write is conditional on the value read.                                  *)

Requests == {1, 2}

(* user_input of each request *)
REQUEST_INPUT == << <<"I has went">>, <<"She go home">> >>

(* the interest each request's UpdateUserProfile call adds *)
REQUEST_INTEREST == <<"chess", "go">>

(* the correction each request's SaveGrammarCorrection call carries: the    *)
(* correction of its own user_input                                         *)
RequestCorrection(w) ==
    [original_text |-> REQUEST_INPUT[w][1],
     corrected_text |-> IF w = 1 THEN "I went" ELSE "She goes home",
     explanation |-> "tense", improvement |-> "tip"]

ConcurrentInit ==
    /\ pc = "concurrent"
    /\ workers = [w \in Requests |->
                      [at |-> "persist", message_id |-> 0, user_in_db |-> <<>>,
                       profile_done |-> FALSE, correction_done |-> FALSE]]
    /\ turn = 0
    /\ messages = <<>>
    /\ response_content = NoText
    /\ final_answer = NoText
    /\ outcome = "none"
    /\ llmCalls = 0
    /\ iterExtract = 0
    /\ iterHandler = 0
    /\ iterObs = 0
    /\ toolEvent = "none"
    /\ dbMessages = PriorHistory
    /\ dbUser = << [first_name |-> "Alex", location |-> None, user_interests |-> {}] >>
    /\ dbCorrections = {}
    /\ storeProfile = <<>>
    /\ storeCorrections = <<>>
    /\ analysis = [syntactic_analysis |-> "", semantic_analysis |-> ""]
    /\ conversation_history_list = <<>>
    /\ user_profile_str = <<>>
    /\ reply = NoText
    /\ faults = 0
    /\ pipeline_trace = <<>>
    /\ cancelled = FALSE
    /\ calls = <<>>
    /\ lang = "en"
    /\ dispatched = NoDispatch
    /\ proofread = <<>>

(* what a step of one request leaves alone besides tables and cache *)
requestFrame == <<pc, loopVars, reqVars, auxVars, faults, lang, dispatched, proofread>>

(* db.add(user_message); db.commit(); db.refresh(user_message) *)
ReqPersistHumanMessage(w) ==
    /\ workers[w].at = "persist"
    /\ dbMessages' = Append(dbMessages, Row("human", REQUEST_INPUT[w]))
    /\ workers' = [workers EXCEPT ![w].at = "loop", ![w].message_id = Len(dbMessages')]
    /\ UNCHANGED <<requestFrame, dbUser, dbCorrections, storeProfile, storeCorrections>>

(* update_user_profile: user_in_db = db_session.query(User)...first() *)
ReqReadUser(w) ==
    /\ workers[w].at = "loop"
    /\ ~workers[w].profile_done
    /\ workers' = [workers EXCEPT ![w].at = "update_commit", ![w].user_in_db = dbUser]
    /\ UNCHANGED <<requestFrame, dbVars>>

(* update_user_profile: the interests computed from the row as read are     *)
(* assigned and committed                                                   *)
ReqCommitUser(w) ==
    /\ workers[w].at = "update_commit"
    /\ dbUser' = << [dbUser[1] EXCEPT
                        !.user_interests =
                            MergeInterests(workers[w].user_in_db[1].user_interests,
                                           {REQUEST_INTEREST[w]})] >>
    /\ workers' = [workers EXCEPT ![w].at = "update_refresh"]
    /\ UNCHANGED <<requestFrame, dbMessages, dbCorrections, storeProfile, storeCorrections>>

(* update_user_profile: db_session.refresh(user_in_db) *)
ReqRefreshUser(w) ==
    /\ workers[w].at = "update_refresh"
    /\ workers' = [workers EXCEPT ![w].at = "update_put", ![w].user_in_db = dbUser]
    /\ UNCHANGED <<requestFrame, dbVars>>

(* update_user_profile: store.put(namespace, "latest", profile_to_cache) *)
ReqPutProfile(w) ==
    /\ workers[w].at = "update_put"
    /\ LET user_in_db == workers[w].user_in_db[1]
           profile_to_cache == [name |-> user_in_db.first_name,
                                location |-> user_in_db.location,
                                interests |-> user_in_db.user_interests]
       IN  storeProfile' = <<profile_to_cache>>
    /\ workers' = [workers EXCEPT ![w].at = "loop", ![w].profile_done = TRUE]
    /\ UNCHANGED <<requestFrame, dbMessages, dbUser, dbCorrections, storeCorrections>>

(* save_grammar_correction: the newest human row of the conversation is     *)
(* looked up and the correction is added for it and committed               *)
ReqSaveCorrection(w) ==
    /\ workers[w].at = "loop"
    /\ ~workers[w].correction_done
    /\ IF UniqueViolation(LastHumanMessage)
       THEN /\ workers' = [workers EXCEPT ![w].correction_done = TRUE]
            /\ UNCHANGED dbCorrections
       ELSE /\ dbCorrections' = dbCorrections \cup
                                    { [id |-> Cardinality(dbCorrections) + 1,
                                       message_id |-> LastHumanMessage,
                                       data |-> RequestCorrection(w)] }
            /\ workers' = [workers EXCEPT ![w].at = "save_put"]
    /\ UNCHANGED <<requestFrame, dbMessages, dbUser, storeProfile, storeCorrections>>

(* save_grammar_correction: store.put(namespace, key, correction_data) *)
ReqPutCorrection(w) ==
    /\ workers[w].at = "save_put"
    /\ storeCorrections' = Append(storeCorrections, RequestCorrection(w))
    /\ workers' = [workers EXCEPT ![w].at = "loop", ![w].correction_done = TRUE]
    /\ UNCHANGED <<requestFrame, dbMessages, dbUser, dbCorrections, storeProfile>>

(* run_afm_cycle returned: db.add(ai_message); db.commit() *)
ReqPersistAIMessage(w) ==
    /\ workers[w].at = "loop"
    /\ dbMessages' = Append(dbMessages, Row("ai", <<"ok">>))
    /\ workers' = [workers EXCEPT ![w].at = "done"]
    /\ UNCHANGED <<requestFrame, dbUser, dbCorrections, storeProfile, storeCorrections>>

ConcurrentNext ==
    \/ \E w \in Requests : ReqPersistHumanMessage(w)
    \/ \E w \in Requests : ReqReadUser(w)
    \/ \E w \in Requests : ReqCommitUser(w)
    \/ \E w \in Requests : ReqRefreshUser(w)
    \/ \E w \in Requests : ReqPutProfile(w)
    \/ \E w \in Requests : ReqSaveCorrection(w)
    \/ \E w \in Requests : ReqPutCorrection(w)
    \/ \E w \in Requests : ReqPersistAIMessage(w)

SpecConcurrent == ConcurrentInit /\ [][ConcurrentNext]_vars

(* C28: process_new_message stores the human message before its agent loop  *)
(* runs, and a correction saved while user message M is processed is linked *)
(* to M itself, in every interleaving of concurrent requests on the same    *)
(* conversation.                                                            *)
C28_CorrectionLinkedToOwnMessage ==
    /\ \A w \in Requests :
           workers[w].at # "persist" =>
               /\ workers[w].message_id \in 1..Len(dbMessages)
               /\ dbMessages[workers[w].message_id] = Row("human", REQUEST_INPUT[w])
    /\ \A c \in dbCorrections : \A w \in Requests :
           c.data = RequestCorrection(w) => c.message_id = workers[w].message_id

(* C29: once two concurrent UpdateUserProfile calls for the same user, each *)
(* adding a different interest, have both completed, the users row and the  *)
(* cached profile hold both interests, in every interleaving of their read, *)
(* commit and cache-write steps.                                            *)
C29_ConcurrentInterestsBothKept ==
    (\A w \in Requests : workers[w].profile_done) =>
        /\ \A w \in Requests : REQUEST_INTEREST[w] \in dbUser[1].user_interests
        /\ \A w \in Requests : REQUEST_INTEREST[w] \in storeProfile[1].interests

====
